---------------------------- MODULE Spec2Model ----------------------------
(***************************************************************************)
(* A model of picatz/simnet: the Config (condition profile) with its       *)
(* partition set, lock and shared random source, the Dialer, the stream    *)
(* shim (simulatedConn) and the datagram shim (simulatedPacketConn).       *)
(*                                                                         *)
(* Rates are percentages (0, 50, 100 stand for 0.0, 0.5, 1.0); a draw of   *)
(* rand.Float64() is a percentage in 0..99, so that it is always below a   *)
(* rate of 100 and never below a rate of 0.                                *)
(***************************************************************************)
EXTENDS Integers, Sequences, FiniteSets, TLC

\* ------------------------------------------------------------------ bounds
\* Number of Dial calls the dialing goroutine makes.
MaxDials == 2
\* Number of AddPartition/RemovePartition calls made while dialing goes on.
MaxMutations == 2

\* Number of Write calls made on the stream shim.
MaxWrites == 2
\* Number of Close calls made on a shim, over all callers.
MaxCloses == 2
\* Number of WriteTo calls made on the datagram shim.
MaxSends == 1
\* Number of Read calls made on the stream shim.
MaxReads == 2
\* Number of Accept calls made on the listener.
MaxAccepts == 2
\* Number of cfg.randSource() calls each caller makes.
MaxRandCalls == 2
\* Seconds the clock runs for.
MaxTicks == 3
\* Number of operations each of two independent runs performs.
MaxOps == 3
\* Capacity of the model's queues; the code's make(chan ..., 100) scaled down
\* so that a full queue is reached.
QueueCap == 2

\* ------------------------------------------------------------- value sets
Addrs == {"a1", "a2"}

\* Payloads handed to Write and WriteTo.
Payloads == {<<1>>, <<2, 3>>}

\* Goroutines that call Close.
Closers == {"c1", "c2"}

Rates == {0, 50, 100}

\* Lengths of the buffers handed to ReadFrom.
BufLens == {1, 2}

\* The packets peers send to the datagram shim's real socket.
NetPackets == {[id |-> 0, data |-> <<9>>, addr |-> "a2"]}

\* The goroutines that run enqueuePacket: the WriteTo caller and readLoop.
Pipes == {"tx", "rl"}

ErrNone == "nil"
ErrNetworkPartitioned == "ErrNetworkPartitioned"
ErrDialFailed == "ErrDialFailed"
ErrClosed == "net.ErrClosed"
ErrEOF == "io.EOF"
ErrFailedToAccept == "simnet: failed to accept connection"

\* The maps PartitionedAddrs can hold: keys with either boolean value
\* (WithPartitionedAddrs copies the caller's values, false included).  A nil
\* map behaves as the empty one under lookup and delete, and AddPartition
\* allocates it, so nil is represented by the empty map.
PartitionMaps == UNION {[S -> BOOLEAN] : S \in SUBSET Addrs}

\* Condition profiles the dialer is run with: Seed 0 asks for a time seed.
DialProfiles ==
    [Latency : {0}, Jitter : {0}, Bandwidth : {0}, LossRate : {0},
     ReorderRate : {0}, DuplicateRate : {0}, Seed : {0, 1}]

\* Condition profiles the stream shim is run with: every combination of
\* rates, with no delay configured or with latency, jitter and bandwidth set.
StreamProfiles ==
    {p \in [Latency : {0, 1}, Jitter : {0, 2}, Bandwidth : {0, 1}, LossRate : Rates,
            ReorderRate : Rates, DuplicateRate : Rates, Seed : {0}] :
       (p.Latency = 0) = (p.Jitter = 0) /\ (p.Jitter = 0) = (p.Bandwidth = 0)}

\* The profiles of the runs checked under fair scheduling: each effect off or
\* certain, each delay term on its own.
FairStreamProfiles ==
    {p \in [Latency : {0, 1}, Jitter : {0, 2}, Bandwidth : {0, 1}, LossRate : {0, 100},
            ReorderRate : {0, 100}, DuplicateRate : {0, 100}, Seed : {0}] :
       p.Bandwidth = 0 \/ (p.Latency = 0 /\ p.Jitter = 0)}

\* Condition profiles the datagram shim is run with:
\* every combination of effects with no delay configured, and latency,
\* jitter and bandwidth set with at most one effect.
DgramProfiles ==
    {p \in [Latency : {0, 1}, Jitter : {0, 2}, Bandwidth : {0, 1}, LossRate : {0, 50},
            ReorderRate : {0, 50}, DuplicateRate : {0, 50}, Seed : {0}] :
       /\ (p.Latency = 0) = (p.Jitter = 0) /\ (p.Jitter = 0) = (p.Bandwidth = 0)
       /\ p.Jitter = 0 \/ p.LossRate + p.ReorderRate + p.DuplicateRate <= 50}

\* The profiles of the runs checked under fair scheduling.
FairDgramProfiles ==
    {p \in DgramProfiles :
       \/ p.LossRate = p.ReorderRate /\ p.ReorderRate = p.DuplicateRate /\ p.Jitter = 0
       \/ p.Jitter > 0 /\ p.LossRate = 0}

\* The partition sets the datagram shim is run with: a1 is reachable, a2 is a
\* key of the map with either value.
DgramPartitionMaps == {m \in PartitionMaps : DOMAIN m = {"a2"}}

VARIABLES
    lim,                \* how many calls the callers make, and who calls Close
    cfg,                \* Config: the rates, latency, jitter, bandwidth, seed
    PartitionedAddrs,   \* Config.PartitionedAddrs
    mu,                 \* Config.mu: "free" or the goroutine holding it
    rand,               \* Config.rand: NoRand (nil) or the generator
    mutations,          \* AddPartition/RemovePartition calls made so far
    dPc,                \* the dialing goroutine: "idle", "connect", "wrap"
    dAddr,              \* address of the Dial in progress
    dialLog,            \* one record per finished Dial
    realDials,          \* addresses handed to the real net.Dialer
    shims,              \* number of simulatedConn values wrapConn created
    sc,                 \* simulatedConn: closed, writeQueue, closeOnce, conn
    w,                  \* the goroutine calling Write: position and locals
    wLog,               \* one record per returned Write
    async,              \* the reorder goroutines Write started, by call number
    drPc,               \* processWriteQueue: "run" or "done"
    realWritten,        \* the payloads handed to the real conn.Write, in order
    cl,                 \* the goroutines calling Close on the stream shim
    closeCalls,         \* Close calls started on the stream shim
    spc,                \* simulatedPacketConn: closed, the two queues, conn
    pipe,               \* the goroutines in WriteTo and readLoop
    txLog,              \* one record per returned WriteTo
    dasync,             \* the reorder goroutines enqueuePacket started, by packet
    rx,                 \* the goroutine calling ReadFrom, and what it last returned
    inbox,              \* packets waiting in the real socket
    arrived,            \* the packets peers have sent so far
    wlPc,               \* writeLoop: "run" or "done"
    realSent,           \* the packets handed to the real conn.WriteTo
    dcl,                \* the goroutines calling Close on the datagram shim
    dCloseCalls,        \* Close calls started on the datagram shim
    script,             \* the operations two independent runs both perform
    runs,               \* per run: its generator and the decisions it has made
    rd,                 \* the goroutine calling Read on the stream shim
    readBuf,            \* simulatedConn.readBuf
    realReads,          \* the byte counts the real conn.Read has returned
    now,                \* the time, in seconds
    elapsed,            \* per Write call: seconds asleep, since call, since return
    aPc,                \* the goroutine calling Accept: where it is, and the peer
    acceptLog,          \* one record per finished Accept
    rs,                 \* the goroutines calling cfg.randSource(): where they are
    created             \* number of generators rand.New has made for the Config

profileVars == <<lim, cfg, PartitionedAddrs, mu, rand>>

dialVars == <<mutations, dPc, dAddr, dialLog, realDials, shims>>

streamVars == <<sc, w, wLog, async, drPc, realWritten, cl, closeCalls>>

dgramVars == <<spc, pipe, txLog, dasync, rx, inbox, arrived, wlPc, realSent,
               dcl, dCloseCalls>>

seedVars == <<script, runs>>

readVars == <<rd, readBuf, realReads>>

timeVars == <<now, elapsed>>

listenVars == <<aPc, acceptLog>>

randVars == <<rs, created>>

\* The state no action of the dialer, the write path or the datagram shim
\* touches.
sideVars == <<seedVars, readVars, timeVars, listenVars, randVars>>

vars == <<profileVars, dialVars, streamVars, dgramVars, sideVars>>

\* ----------------------------------------------------------------- Config
\* cfg.rand == nil.  A generator is its seed and its position in its cycle,
\* which every draw advances; seed 0 marks a generator seeded from
\* time.Now().UnixNano().
NoRand == [set |-> FALSE, seed |-> 0, pos |-> 0]

\* The values a draw of rand.Float64() can take, as percentages.
DrawValues == {25, 75}

\* The generator's output at a position: a function of seed and position
\* for a seeded generator, any value for a time-seeded one.
Float64At(seed, pos, u) ==
    IF seed = 0 THEN u \in DrawValues
    ELSE u = IF ((seed + pos) % 3) = 0 THEN 75 ELSE 25

\* The generator after one more draw.
Advance(r) == [r EXCEPT !.pos = (@ + 1) % 3]

\* Mutant of randSource: the generator is seeded from the clock whatever cfg.Seed is.
randSourceFromClock(r) ==
    IF r.set THEN r ELSE [set |-> TRUE, seed |-> 0, pos |-> 0]

\* Config.randSource: create the generator on first use, under cfg.mu.
randSource(r) ==
    IF r.set THEN r ELSE [set |-> TRUE, seed |-> cfg.Seed, pos |-> 0]

\* The outputs the generator can give at its present position.
NextFloat == {u \in DrawValues : Float64At(rand.seed, rand.pos, u)}

\* rate > 0 && rand.Float64() < rate: the draw is made only when rate > 0.
\* Drawn(rate) is what the call reads (0 when no draw is made), Consumed(r, rate)
\* the generator after it.
Drawn(rate) == IF rate > 0 THEN NextFloat ELSE {0}

\* Mutant of the short-circuit: the generator is advanced whatever the rate is.
ConsumedAlways(r, rate) == Advance(r)

Consumed(r, rate) == IF rate > 0 THEN Advance(r) ELSE r

\* rand.Int63n(n) read off a draw u.
Int63n(n, u) == (u * n) \div 100

\* Mutant of isPartitioned: reads the map's value instead of testing for the key.
isPartitionedByValue(m, address) == address \in DOMAIN m /\ m[address]

\* Config.isPartitioned: _, partitioned := cfg.PartitionedAddrs[address]
isPartitioned(m, address) == address \in DOMAIN m

\* cfg.PartitionedAddrs[address] = true
mapSet(m, address) == [a \in DOMAIN m \cup {address} |-> IF a = address THEN TRUE ELSE m[a]]

\* Mutant of mapDelete: the key stays in the map.
mapDeleteKeepsKey(m, address) == m

\* delete(cfg.PartitionedAddrs, address)
mapDelete(m, address) == [a \in DOMAIN m \ {address} |-> m[a]]

AddPartition(address) ==
    /\ mu = "free"
    /\ mutations < lim.mutations
    /\ mutations' = mutations + 1
    /\ PartitionedAddrs' = mapSet(PartitionedAddrs, address)
    /\ UNCHANGED <<sideVars, lim, cfg, mu, rand, dPc, dAddr, dialLog, realDials, shims, streamVars,
                   dgramVars>>

RemovePartition(address) ==
    /\ mu = "free"
    /\ mutations < lim.mutations
    /\ mutations' = mutations + 1
    /\ PartitionedAddrs' = mapDelete(PartitionedAddrs, address)
    /\ UNCHANGED <<sideVars, lim, cfg, mu, rand, dPc, dAddr, dialLog, realDials, shims, streamVars,
                   dgramVars>>

\* ----------------------------------------------------------------- Dialer
DialResult(address, err) == [addr |-> address, err |-> err, conn |-> err = ErrNone]

\* Dialer.DialContext up to its partition check (Dial calls DialContext).
DialCheck(address) ==
    /\ dPc = "idle"
    /\ Len(dialLog) < lim.dials
    /\ mu = "free"
    /\ dAddr' = address
    /\ IF isPartitioned(PartitionedAddrs, address)
       THEN /\ dialLog' = Append(dialLog, DialResult(address, ErrNetworkPartitioned))
            /\ dPc' = "idle"
       ELSE /\ dPc' = "connect"
            /\ dialLog' = dialLog
    /\ UNCHANGED <<sideVars, profileVars, mutations, realDials, shims, streamVars, dgramVars>>

\* d.dialer.DialContext: the real connect, which the network lets succeed or fail.
DialConnect(ok) ==
    /\ dPc = "connect"
    /\ realDials' = Append(realDials, dAddr)
    /\ IF ok
       THEN /\ dPc' = "wrap"
            /\ dialLog' = dialLog
       ELSE /\ dPc' = "idle"
            /\ dialLog' = Append(dialLog, DialResult(dAddr, ErrDialFailed))
    /\ UNCHANGED <<sideVars, profileVars, mutations, dAddr, shims, streamVars, dgramVars>>

\* wrapConn: take the profile's generator and build the shim.
DialWrap ==
    /\ dPc = "wrap"
    /\ mu = "free"
    /\ rand' = randSource(rand)
    /\ shims' = shims + 1
    /\ dialLog' = Append(dialLog, DialResult(dAddr, ErrNone))
    /\ dPc' = "idle"
    /\ UNCHANGED <<sideVars, lim, cfg, PartitionedAddrs, mu, mutations, dAddr, realDials,
                   streamVars,
                   dgramVars>>

\* ---------------------------------------------------------------- Listener
\* The address the wrapped listener is bound to.
ListenAddr == "a2"

\* One finished Accept: the peer, what the real accept did, whether the peer
\* or the listener was in the partition set then, and what Accept returned.
AcceptResult(peer, ok, cut, err) ==
    [peer |-> peer, ok |-> ok, cut |-> cut, err |-> err, conn |-> err = ErrNone]

\* Mutant of AcceptReal: a connection from or to a partitioned address is refused.
AcceptRealChecked(peer, ok) ==
    /\ aPc.pc = "idle"
    /\ Len(acceptLog) < lim.accepts
    /\ LET cut == isPartitioned(PartitionedAddrs, peer)
                    \/ isPartitioned(PartitionedAddrs, ListenAddr)
       IN IF ok /\ ~cut
          THEN /\ aPc' = [pc |-> "wrap", peer |-> peer, cut |-> cut]
               /\ acceptLog' = acceptLog
          ELSE /\ aPc' = aPc
               /\ acceptLog' = Append(acceptLog,
                                      AcceptResult(peer, ok, cut,
                                                   IF ok THEN ErrNetworkPartitioned
                                                   ELSE ErrFailedToAccept))
    /\ UNCHANGED <<profileVars, dialVars, streamVars, dgramVars, seedVars, readVars,
                   timeVars, randVars>>

\* Listener.Accept: conn, err := l.ln.Accept(), which a peer's connection
\* ends with success or failure; a failure is returned as ErrFailedToAccept.
AcceptReal(peer, ok) ==
    /\ aPc.pc = "idle"
    /\ Len(acceptLog) < lim.accepts
    /\ LET cut == isPartitioned(PartitionedAddrs, peer)
                    \/ isPartitioned(PartitionedAddrs, ListenAddr)
       IN IF ok
          THEN /\ aPc' = [pc |-> "wrap", peer |-> peer, cut |-> cut]
               /\ acceptLog' = acceptLog
          ELSE /\ aPc' = aPc
               /\ acceptLog' = Append(acceptLog,
                                      AcceptResult(peer, ok, cut, ErrFailedToAccept))
    /\ UNCHANGED <<profileVars, dialVars, streamVars, dgramVars, seedVars, readVars,
                   timeVars, randVars>>

\* Listener.Accept: return wrapConn(conn, l.cfg), nil.
AcceptWrap ==
    /\ aPc.pc = "wrap"
    /\ mu = "free"
    /\ rand' = randSource(rand)
    /\ shims' = shims + 1
    /\ acceptLog' = Append(acceptLog, AcceptResult(aPc.peer, TRUE, aPc.cut, ErrNone))
    /\ aPc' = [aPc EXCEPT !.pc = "idle"]
    /\ UNCHANGED <<lim, cfg, PartitionedAddrs, mu, mutations, dPc, dAddr, dialLog,
                   realDials, streamVars, dgramVars, seedVars, readVars, timeVars, randVars>>

\* ------------------------------------------------------------ stream shim
\* append([]byte(nil), b...): a fresh slice with b's bytes.
copyBytes(b) == [i \in 1..Len(b) |-> b[i]]

\* Mutant of simulateLoss: the draw is compared the wrong way round.
simulateLossInverted(u) == cfg.LossRate > 0 /\ u >= cfg.LossRate

\* simulatedConn.simulateLoss
simulateLoss(u) == cfg.LossRate > 0 /\ u < cfg.LossRate

\* simulatedConn.simulateReordering
simulateReordering(u) == cfg.ReorderRate > 0 /\ u < cfg.ReorderRate

\* Mutant of simulateDuplication: the draw is compared the wrong way round.
simulateDuplicationInverted(u) == cfg.DuplicateRate > 0 /\ u >= cfg.DuplicateRate

\* simulatedConn.simulateDuplication
simulateDuplication(u) == cfg.DuplicateRate > 0 /\ u < cfg.DuplicateRate

\* Mutant of calculateLatency: the base latency is left out.
calculateLatencyNoBase(n, u) ==
    (IF cfg.Jitter > 0 THEN Int63n(cfg.Jitter, u) ELSE 0)
      + (IF cfg.Bandwidth > 0 /\ n > 0 THEN n \div cfg.Bandwidth ELSE 0)

\* simulatedConn.calculateLatency, u being the jitter draw; durations are in
\* seconds.
calculateLatency(n, u) ==
    cfg.Latency
      + (IF cfg.Jitter > 0 THEN Int63n(cfg.Jitter, u) ELSE 0)
      + (IF cfg.Bandwidth > 0 /\ n > 0 THEN n \div cfg.Bandwidth ELSE 0)

\* The process is alive: no goroutine without a recover has panicked.
Running == ~sc.crashed

\* Mutant of enqueueWrite: the payload goes to the head of the queue.
enqueueWriteAtHead(msg, how) ==
    CASE how = "sent" ->
           /\ ~sc.queueClosed
           /\ Len(sc.writeQueue) < QueueCap
           /\ sc' = [sc EXCEPT !.writeQueue = <<msg>> \o @]
      [] how = "abandoned" ->
           /\ sc.closed
           /\ sc' = sc
      [] how = "panic" ->
           /\ sc.queueClosed
           /\ sc' = sc

\* simulatedConn.enqueueWrite: select { case sc.writeQueue <- data: case <-sc.closed: }.
\* The send can proceed when the queue has room, and panics when the queue
\* is closed; the other case can proceed once closed is closed.  how names the
\* case the select takes.
enqueueWrite(msg, how) ==
    CASE how = "sent" ->
           /\ ~sc.queueClosed
           /\ Len(sc.writeQueue) < QueueCap
           /\ sc' = [sc EXCEPT !.writeQueue = Append(@, msg)]
      [] how = "abandoned" ->
           /\ sc.closed
           /\ sc' = sc
      [] how = "panic" ->
           /\ sc.queueClosed
           /\ sc' = sc

EnqueueOutcomes == {"sent", "abandoned", "panic"}

\* simulatedConn.Write up to its loss decision.
WriteCall(b) ==
    /\ Running
    /\ w.pc = "idle"
    /\ Len(wLog) < lim.writes
    /\ \E u \in Drawn(cfg.LossRate) :
         /\ rand' = Consumed(rand, cfg.LossRate)
         /\ IF simulateLoss(u)
            THEN /\ wLog' = Append(wLog, [id |-> Len(wLog) + 1, data |-> b,
                                          n |-> Len(b), err |-> ErrNone, lost |-> TRUE, slept |-> 0])
                 /\ w' = w
            ELSE /\ w' = [pc |-> "dup", id |-> Len(wLog) + 1, data |-> b, delay |-> 0]
                 /\ wLog' = wLog
    /\ UNCHANGED <<sideVars, lim, cfg, PartitionedAddrs, mu, dialVars, sc, async, drPc,
                   realWritten, cl, closeCalls, dgramVars>>

\* Write: the duplication decision.
WriteDup ==
    /\ Running
    /\ w.pc = "dup"
    /\ \E u \in Drawn(cfg.DuplicateRate) :
         /\ rand' = Consumed(rand, cfg.DuplicateRate)
         /\ w' = [w EXCEPT !.pc = IF simulateDuplication(u) THEN "dupEnq" ELSE "reorder"]
    /\ UNCHANGED <<sideVars, lim, cfg, PartitionedAddrs, mu, dialVars, sc, wLog, async, drPc,
                   realWritten, cl, closeCalls, dgramVars>>

\* Write: sc.enqueueWrite(dataCopy) of the duplicate.
\* A duplicate copy that is put on the queue whether or not there is room.
WriteDupEnqueueNoWait ==
    /\ Running
    /\ w.pc = "dupEnq"
    /\ sc' = [sc EXCEPT !.writeQueue = Append(@, [id |-> w.id, data |-> copyBytes(w.data)])]
    /\ w' = [w EXCEPT !.pc = "reorder"]
    /\ UNCHANGED <<sideVars, profileVars, dialVars, wLog, async, drPc, realWritten, cl,
                   closeCalls, dgramVars>>

WriteDupEnqueue ==
    /\ Running
    /\ w.pc = "dupEnq"
    /\ \E how \in EnqueueOutcomes :
         /\ enqueueWrite([id |-> w.id, data |-> copyBytes(w.data)], how)
         /\ w' = [w EXCEPT !.pc = IF how = "panic" THEN "panic" ELSE "reorder"]
    /\ UNCHANGED <<sideVars, profileVars, dialVars, wLog, async, drPc, realWritten, cl,
                   closeCalls, dgramVars>>

\* Mutant of WriteReorder: a reordered Write sleeps for its latency before it returns.
WriteReorderSleeps ==
    /\ Running
    /\ w.pc = "reorder"
    /\ \E u \in Drawn(cfg.ReorderRate) :
         /\ rand' = Consumed(rand, cfg.ReorderRate)
         /\ IF simulateReordering(u)
            THEN /\ async' = [async EXCEPT ![w.id] =
                                [pc |-> "latency", data |-> copyBytes(w.data), delay |-> 0]]
                 /\ wLog' = Append(wLog, [id |-> w.id, data |-> w.data,
                                          n |-> Len(w.data), err |-> ErrNone,
                                          lost |-> FALSE,
                                          slept |-> calculateLatency(Len(w.data), 0)])
                 /\ w' = [w EXCEPT !.pc = "idle"]
            ELSE /\ w' = [w EXCEPT !.pc = "latency"]
                 /\ UNCHANGED <<async, wLog, dgramVars>>
    /\ UNCHANGED <<sideVars, lim, cfg, PartitionedAddrs, mu, dialVars, sc, drPc, realWritten,
                   cl, closeCalls, dgramVars>>

\* Write: the reordering decision; a reordered payload is left to a new
\* goroutine and Write returns.
WriteReorder ==
    /\ Running
    /\ w.pc = "reorder"
    /\ \E u \in Drawn(cfg.ReorderRate) :
         /\ rand' = Consumed(rand, cfg.ReorderRate)
         /\ IF simulateReordering(u)
            THEN /\ async' = [async EXCEPT ![w.id] =
                                [pc |-> "latency", data |-> copyBytes(w.data), delay |-> 0]]
                 /\ wLog' = Append(wLog, [id |-> w.id, data |-> w.data,
                                          n |-> Len(w.data), err |-> ErrNone,
                                          lost |-> FALSE, slept |-> w.delay])
                 /\ w' = [w EXCEPT !.pc = "idle"]
            ELSE /\ w' = [w EXCEPT !.pc = "latency"]
                 /\ UNCHANGED <<async, wLog, dgramVars>>
    /\ UNCHANGED <<sideVars, lim, cfg, PartitionedAddrs, mu, dialVars, sc, drPc, realWritten, cl,
                   closeCalls, dgramVars>>

\* Write: sc.simulateLatency(len(b)).  The sleep touches nothing shared: the
\* goroutine stays at "enq" for as long as it lasts, its length in delay.
WriteLatency ==
    /\ Running
    /\ w.pc = "latency"
    /\ \E u \in Drawn(cfg.Jitter) :
         /\ rand' = Consumed(rand, cfg.Jitter)
         /\ w' = [w EXCEPT !.pc = "enq", !.delay = calculateLatency(Len(w.data), u)]
    /\ UNCHANGED <<sideVars, lim, cfg, PartitionedAddrs, mu, dialVars, sc, wLog, async, drPc,
                   realWritten, cl, closeCalls, dgramVars>>

\* Write: sc.enqueueWrite(dataCopy); return len(b), nil.
WriteEnqueue ==
    /\ Running
    /\ w.pc = "enq"
    /\ \E how \in EnqueueOutcomes :
         /\ enqueueWrite([id |-> w.id, data |-> copyBytes(w.data)], how)
         /\ IF how = "panic"
            THEN /\ w' = [w EXCEPT !.pc = "panic"]
                 /\ wLog' = wLog
            ELSE /\ w' = [w EXCEPT !.pc = "idle"]
                 /\ wLog' = Append(wLog, [id |-> w.id, data |-> w.data,
                                          n |-> Len(w.data), err |-> ErrNone,
                                          lost |-> FALSE, slept |-> w.delay])
    /\ UNCHANGED <<sideVars, profileVars, dialVars, async, drPc, realWritten, cl, closeCalls,
                   dgramVars>>

\* The reorder goroutine of call k: sc.simulateLatency(len(dataCopy)).
AsyncLatency(k) ==
    /\ Running
    /\ async[k].pc = "latency"
    /\ \E u \in Drawn(cfg.Jitter) :
         /\ rand' = Consumed(rand, cfg.Jitter)
         /\ async' = [async EXCEPT ![k].pc = "enq",
                                   ![k].delay = calculateLatency(Len(async[k].data), u)]
    /\ UNCHANGED <<sideVars, lim, cfg, PartitionedAddrs, mu, dialVars, sc, w, wLog, drPc,
                   realWritten, cl, closeCalls, dgramVars>>

\* The reorder goroutine of call k: sc.enqueueWrite(dataCopy).  A panic in
\* this goroutine ends the process.
AsyncEnqueue(k) ==
    /\ Running
    /\ async[k].pc = "enq"
    /\ \E how \in EnqueueOutcomes :
         IF how = "panic"
         THEN /\ sc.queueClosed
              /\ sc' = [sc EXCEPT !.crashed = TRUE]
              /\ async' = [async EXCEPT ![k].pc = "panic"]
         ELSE /\ enqueueWrite([id |-> k, data |-> async[k].data], how)
              /\ async' = [async EXCEPT ![k].pc = "done"]
    /\ UNCHANGED <<sideVars, profileVars, dialVars, w, wLog, drPc, realWritten, cl, closeCalls,
                   dgramVars>>

\* Mutant of processWriteQueue: the payload queued last is written first.
processWriteQueueNewestFirst ==
    /\ Running
    /\ drPc = "run"
    /\ \E how \in {"recv", "closed"} :
         IF how = "recv"
         THEN IF sc.writeQueue # <<>>
              THEN /\ realWritten' = Append(realWritten, sc.writeQueue[Len(sc.writeQueue)])
                   /\ sc' = [sc EXCEPT !.writeQueue = SubSeq(@, 1, Len(@) - 1)]
                   /\ drPc' = drPc
              ELSE /\ sc.queueClosed
                   /\ drPc' = "done"
                   /\ UNCHANGED <<sc, realWritten, dgramVars>>
         ELSE /\ sc.closed
              /\ drPc' = "done"
              /\ UNCHANGED <<sc, realWritten, dgramVars>>
    /\ UNCHANGED <<sideVars, profileVars, dialVars, w, wLog, async, cl, closeCalls, dgramVars>>

\* simulatedConn.processWriteQueue: one round of its select.  The receive can
\* proceed when the queue holds a payload or is closed, the other case once
\* closed is closed.
processWriteQueue ==
    /\ Running
    /\ drPc = "run"
    /\ \E how \in {"recv", "closed"} :
         IF how = "recv"
         THEN IF sc.writeQueue # <<>>
              THEN /\ realWritten' = Append(realWritten, Head(sc.writeQueue))
                   /\ sc' = [sc EXCEPT !.writeQueue = Tail(@)]
                   /\ drPc' = drPc
              ELSE /\ sc.queueClosed
                   /\ drPc' = "done"
                   /\ UNCHANGED <<sc, realWritten, dgramVars>>
         ELSE /\ sc.closed
              /\ drPc' = "done"
              /\ UNCHANGED <<sc, realWritten, dgramVars>>
    /\ UNCHANGED <<sideVars, profileVars, dialVars, w, wLog, async, cl, closeCalls, dgramVars>>

\* Mutant of CloseCall: the function is run without the once.
CloseCallNoOnce(c) ==
    /\ Running
    /\ c \in lim.closers
    /\ cl[c] = "idle"
    /\ closeCalls < lim.closes
    /\ closeCalls' = closeCalls + 1
    /\ sc.once # "running"
    /\ sc' = [sc EXCEPT !.once = "running", !.closed = TRUE, !.signalCloses = @ + 1]
    /\ cl' = [cl EXCEPT ![c] = "inOnce"]
    /\ UNCHANGED <<sideVars, profileVars, dialVars, w, wLog, async, drPc, realWritten, dgramVars>>

\* simulatedConn.Close entering sc.closeOnce.Do: the first caller runs the
\* function, starting with close(sc.closed); a later caller waits for the
\* function to end and Do returns to it.
CloseCall(c) ==
    /\ Running
    /\ c \in lim.closers
    /\ cl[c] = "idle"
    /\ closeCalls < lim.closes
    /\ closeCalls' = closeCalls + 1
    /\ IF sc.once = "new"
       THEN /\ sc' = [sc EXCEPT !.once = "running", !.closed = TRUE,
                                 !.signalCloses = @ + 1]
            /\ cl' = [cl EXCEPT ![c] = "inOnce"]
       ELSE /\ sc.once = "done"
            /\ sc' = sc
            /\ cl' = [cl EXCEPT ![c] = "connClose"]
    /\ UNCHANGED <<sideVars, profileVars, dialVars, w, wLog, async, drPc, realWritten,
                   dgramVars>>

\* Close: close(sc.writeQueue), the end of the once function.
CloseQueue(c) ==
    /\ Running
    /\ cl[c] = "inOnce"
    /\ sc' = [sc EXCEPT !.queueClosed = TRUE, !.queueCloses = @ + 1, !.once = "done"]
    /\ cl' = [cl EXCEPT ![c] = "connClose"]
    /\ UNCHANGED <<sideVars, profileVars, dialVars, w, wLog, async, drPc, realWritten,
                   closeCalls, dgramVars>>

\* Close: return sc.conn.Close().
CloseConn(c) ==
    /\ Running
    /\ cl[c] = "connClose"
    /\ sc' = [sc EXCEPT !.connClosed = TRUE, !.connCloses = @ + 1]
    /\ cl' = [cl EXCEPT ![c] = "idle"]
    /\ UNCHANGED <<sideVars, profileVars, dialVars, w, wLog, async, drPc, realWritten,
                   closeCalls, dgramVars>>

\* ---------------------------------------------------------- datagram shim
\* simulatedPacketConn.simulateLoss
spcSimulateLoss(u) == cfg.LossRate > 0 /\ u < cfg.LossRate

\* simulatedPacketConn.simulateReordering
spcSimulateReordering(u) == cfg.ReorderRate > 0 /\ u < cfg.ReorderRate

\* simulatedPacketConn.simulateDuplication
spcSimulateDuplication(u) == cfg.DuplicateRate > 0 /\ u < cfg.DuplicateRate

\* simulatedPacketConn.simulateLatency, u being the jitter draw.
spcSimulateLatency(n, u) ==
    cfg.Latency
      + (IF cfg.Jitter > 0 THEN Int63n(cfg.Jitter, u) ELSE 0)
      + (IF cfg.Bandwidth > 0 /\ n > 0 THEN n \div cfg.Bandwidth ELSE 0)

\* Where enqueuePacket stands after a decision.  A decision whose rate is 0
\* and a latency without jitter read nothing shared, so the goroutine is
\* taken straight to its next step that does.
AtDeliver(dup) ==
    IF cfg.Jitter > 0 THEN (IF dup THEN "dupLatency" ELSE "latency")
    ELSE (IF dup THEN "dupDeliver" ELSE "deliver")

AtReorder == IF cfg.ReorderRate > 0 THEN "reorder" ELSE AtDeliver(FALSE)

AtDup == IF cfg.DuplicateRate > 0 THEN "dup" ELSE AtReorder

\* n = copy(p, pkt.data): the bytes that fit the caller's buffer.
copyInto(buflen, data) == SubSeq(data, 1, IF buflen < Len(data) THEN buflen ELSE Len(data))

\* Mutant of deliverPacket: the packet is filed under the shim's own address.
deliverPacketOwnAddr(pkt, how) ==
    CASE how = "sent" ->
           /\ Len(spc.readQueue) < QueueCap
           /\ spc' = [spc EXCEPT !.readQueue = Append(@, [pkt EXCEPT !.addr = "local"])]
      [] how = "abandoned" ->
           /\ spc.closed
           /\ spc' = spc

\* The select of deliverPacket: { case spc.readQueue <- pkt: case <-spc.closed: }.
deliverPacket(pkt, how) ==
    CASE how = "sent" ->
           /\ Len(spc.readQueue) < QueueCap
           /\ spc' = [spc EXCEPT !.readQueue = Append(@, pkt)]
      [] how = "abandoned" ->
           /\ spc.closed
           /\ spc' = spc

DeliverOutcomes == {"sent", "abandoned"}

\* enqueuePacket returns to goroutine g: WriteTo returns len(p), nil to its
\* caller, readLoop goes round its loop.
Returned(g, lost) ==
    IF g = "tx"
    THEN /\ pipe' = [pipe EXCEPT ![g].pc = "idle"]
         /\ txLog' = Append(txLog, [id |-> pipe[g].pkt.id, data |-> pipe[g].arg,
                                    addr |-> pipe[g].pkt.addr,
                                    n |-> Len(pipe[g].arg), err |-> ErrNone,
                                    lost |-> lost])
    ELSE /\ pipe' = [pipe EXCEPT ![g].pc = "top"]
         /\ txLog' = txLog

\* Mutant of WriteTo: the packet is handed to enqueuePacket with no partition check.
WriteToUnchecked(p, addr) ==
    /\ pipe["tx"].pc = "idle"
    /\ Len(txLog) < lim.sends
    /\ mu = "free"
    /\ pipe' = [pipe EXCEPT !["tx"] =
                 [pc |-> "enqueue", arg |-> p,
                  pkt |-> [id |-> Len(txLog) + 1, data |-> copyBytes(p), addr |-> addr]]]
    /\ UNCHANGED <<sideVars, profileVars, dialVars, streamVars, spc, txLog, dasync, rx, inbox,
                   arrived, wlPc, realSent, dcl, dCloseCalls>>

\* simulatedPacketConn.WriteTo up to its partition check, made under cfg.mu.
WriteTo(p, addr) ==
    /\ pipe["tx"].pc = "idle"
    /\ Len(txLog) < lim.sends
    /\ mu = "free"
    /\ IF isPartitioned(PartitionedAddrs, addr)
       THEN /\ txLog' = Append(txLog, [id |-> Len(txLog) + 1, data |-> p, addr |-> addr,
                                       n |-> 0, err |-> ErrNetworkPartitioned,
                                       lost |-> FALSE])
            /\ pipe' = pipe
       ELSE /\ pipe' = [pipe EXCEPT !["tx"] =
                          [pc |-> "enqueue", arg |-> p,
                           pkt |-> [id |-> Len(txLog) + 1, data |-> copyBytes(p),
                                    addr |-> addr]]]
            /\ txLog' = txLog
    /\ UNCHANGED <<sideVars, profileVars, dialVars, streamVars, spc, dasync, rx, inbox,
                   arrived, wlPc, realSent, dcl, dCloseCalls>>

\* enqueuePacket: spc.cfg.mu.Lock() and the loss decision; a lost packet is
\* dropped and the deferred Unlock runs.
enqueuePacket(g) ==
    /\ pipe[g].pc = "enqueue"
    /\ mu = "free"
    /\ \E u \in Drawn(cfg.LossRate) :
         /\ rand' = Consumed(rand, cfg.LossRate)
         /\ IF spcSimulateLoss(u)
            THEN /\ mu' = "free"
                 /\ Returned(g, TRUE)
            ELSE /\ mu' = g
                 /\ pipe' = [pipe EXCEPT ![g].pc = AtDup]
                 /\ txLog' = txLog
    /\ UNCHANGED <<sideVars, lim, cfg, PartitionedAddrs, dialVars, streamVars, spc, dasync, rx,
                   inbox, arrived, wlPc, realSent, dcl, dCloseCalls>>

\* enqueuePacket: the duplication decision.
enqueueDup(g) ==
    /\ pipe[g].pc = "dup"
    /\ \E u \in Drawn(cfg.DuplicateRate) :
         /\ rand' = Consumed(rand, cfg.DuplicateRate)
         /\ pipe' = [pipe EXCEPT ![g].pc =
                       IF spcSimulateDuplication(u) THEN AtDeliver(TRUE) ELSE AtReorder]
    /\ UNCHANGED <<sideVars, lim, cfg, PartitionedAddrs, mu, dialVars, streamVars, spc, txLog,
                   dasync, rx, inbox, arrived, wlPc, realSent, dcl, dCloseCalls>>

\* deliverPacket of the duplicate: time.Sleep(spc.simulateLatency(len(pkt.data))).
enqueueDupLatency(g) ==
    /\ pipe[g].pc = "dupLatency"
    /\ \E u \in Drawn(cfg.Jitter) :
         /\ rand' = Consumed(rand, cfg.Jitter)
         /\ pipe' = [pipe EXCEPT ![g].pc = "dupDeliver"]
    /\ UNCHANGED <<sideVars, lim, cfg, PartitionedAddrs, mu, dialVars, streamVars, spc, txLog,
                   dasync, rx, inbox, arrived, wlPc, realSent, dcl, dCloseCalls>>

\* deliverPacket of the duplicate: its select.
enqueueDupDeliver(g) ==
    /\ pipe[g].pc = "dupDeliver"
    /\ \E how \in DeliverOutcomes : deliverPacket(pipe[g].pkt, how)
    /\ pipe' = [pipe EXCEPT ![g].pc = AtReorder]
    /\ UNCHANGED <<sideVars, profileVars, dialVars, streamVars, txLog, dasync, rx, inbox,
                   arrived, wlPc, realSent, dcl, dCloseCalls>>

\* enqueuePacket: the reordering decision; a reordered packet is left to a
\* new goroutine, and enqueuePacket returns and unlocks.
enqueueReorder(g) ==
    /\ pipe[g].pc = "reorder"
    /\ \E u \in Drawn(cfg.ReorderRate) :
         /\ rand' = Consumed(rand, cfg.ReorderRate)
         /\ IF spcSimulateReordering(u)
            THEN /\ dasync' = [dasync EXCEPT ![pipe[g].pkt.id] =
                                 [pc |-> IF cfg.Jitter > 0 THEN "sleep" ELSE "deliver",
                                  pkt |-> pipe[g].pkt]]
                 /\ mu' = "free"
                 /\ Returned(g, FALSE)
            ELSE /\ pipe' = [pipe EXCEPT ![g].pc = AtDeliver(FALSE)]
                 /\ UNCHANGED <<mu, dasync, txLog>>
    /\ UNCHANGED <<sideVars, lim, cfg, PartitionedAddrs, dialVars, streamVars, spc, rx,
                   inbox, arrived, wlPc, realSent, dcl, dCloseCalls>>

\* deliverPacket: time.Sleep(spc.simulateLatency(len(pkt.data))).
enqueueLatency(g) ==
    /\ pipe[g].pc = "latency"
    /\ \E u \in Drawn(cfg.Jitter) :
         /\ rand' = Consumed(rand, cfg.Jitter)
         /\ pipe' = [pipe EXCEPT ![g].pc = "deliver"]
    /\ UNCHANGED <<sideVars, lim, cfg, PartitionedAddrs, mu, dialVars, streamVars, spc, txLog,
                   dasync, rx, inbox, arrived, wlPc, realSent, dcl, dCloseCalls>>

\* deliverPacket: its select; then enqueuePacket returns and unlocks.
enqueueDeliver(g) ==
    /\ pipe[g].pc = "deliver"
    /\ \E how \in DeliverOutcomes : deliverPacket(pipe[g].pkt, how)
    /\ mu' = "free"
    /\ Returned(g, FALSE)
    /\ UNCHANGED <<sideVars, lim, cfg, PartitionedAddrs, rand, dialVars, streamVars, dasync, rx,
                   inbox, arrived, wlPc, realSent, dcl, dCloseCalls>>

\* The reorder goroutine of packet k: time.Sleep(spc.simulateLatency(...)).
dasyncSleep(k) ==
    /\ dasync[k].pc = "sleep"
    /\ \E u \in Drawn(cfg.Jitter) :
         /\ rand' = Consumed(rand, cfg.Jitter)
         /\ dasync' = [dasync EXCEPT ![k].pc = "latency"]
    /\ UNCHANGED <<sideVars, lim, cfg, PartitionedAddrs, mu, dialVars, streamVars, spc, pipe,
                   txLog, rx, inbox, arrived, wlPc, realSent, dcl, dCloseCalls>>

\* The reorder goroutine of packet k: deliverPacket's own sleep.
dasyncLatency(k) ==
    /\ dasync[k].pc = "latency"
    /\ \E u \in Drawn(cfg.Jitter) :
         /\ rand' = Consumed(rand, cfg.Jitter)
         /\ dasync' = [dasync EXCEPT ![k].pc = "deliver"]
    /\ UNCHANGED <<sideVars, lim, cfg, PartitionedAddrs, mu, dialVars, streamVars, spc, pipe,
                   txLog, rx, inbox, arrived, wlPc, realSent, dcl, dCloseCalls>>

\* The reorder goroutine of packet k: deliverPacket's select.
dasyncDeliver(k) ==
    /\ dasync[k].pc = "deliver"
    /\ \E how \in DeliverOutcomes : deliverPacket(dasync[k].pkt, how)
    /\ dasync' = [dasync EXCEPT ![k].pc = "done"]
    /\ UNCHANGED <<sideVars, profileVars, dialVars, streamVars, pipe, txLog, rx, inbox,
                   arrived, wlPc, realSent, dcl, dCloseCalls>>

\* A peer's packet reaches the real socket.
NetArrive(pkt) ==
    /\ pkt \notin arrived
    /\ ~spc.connClosed
    /\ arrived' = arrived \cup {pkt}
    /\ inbox' = Append(inbox, pkt)
    /\ UNCHANGED <<sideVars, profileVars, dialVars, streamVars, spc, pipe, txLog, dasync, rx,
                   wlPc, realSent, dcl, dCloseCalls>>

\* readLoop at the top of its loop: select { case <-spc.closed: return; default: }.
readLoop ==
    /\ pipe["rl"].pc = "top"
    /\ pipe' = [pipe EXCEPT !["rl"].pc = IF spc.closed THEN "done" ELSE "read"]
    /\ UNCHANGED <<sideVars, profileVars, dialVars, streamVars, spc, txLog, dasync, rx,
                   inbox, arrived, wlPc, realSent, dcl, dCloseCalls>>

\* readLoop: spc.conn.ReadFrom(buf) returns, with a packet or, the socket
\* being closed, with an error; then processIncomingPacket.
readLoopRead ==
    /\ pipe["rl"].pc = "read"
    /\ IF spc.connClosed
       THEN /\ pipe' = [pipe EXCEPT !["rl"].pc = "top"]
            /\ inbox' = inbox
       ELSE /\ inbox # <<>>
            /\ pipe' = [pipe EXCEPT !["rl"] = [pc |-> "enqueue", arg |-> <<>>,
                                                  pkt |-> Head(inbox)]]
            /\ inbox' = Tail(inbox)
    /\ UNCHANGED <<sideVars, profileVars, dialVars, streamVars, spc, txLog, dasync, rx,
                   arrived, wlPc, realSent, dcl, dCloseCalls>>

\* writeLoop: one round of its select; a packet received from writeQueue goes
\* to processOutgoingPacket, which hands it to the real conn.WriteTo.
writeLoop ==
    /\ wlPc = "run"
    /\ \E how \in {"recv", "closed"} :
         IF how = "recv"
         THEN /\ spc.writeQueue # <<>>
              /\ realSent' = Append(realSent, Head(spc.writeQueue))
              /\ spc' = [spc EXCEPT !.writeQueue = Tail(@)]
              /\ wlPc' = wlPc
         ELSE /\ spc.closed
              /\ wlPc' = "done"
              /\ UNCHANGED <<spc, realSent>>
    /\ UNCHANGED <<sideVars, profileVars, dialVars, streamVars, pipe, txLog, dasync, rx,
                   inbox, arrived, dcl, dCloseCalls>>

NoResult ==
    [id |-> 0, n |-> 0, data |-> <<>>, buflen |-> 0, addr |-> "nil", err |-> "none"]

\* simulatedPacketConn.ReadFrom is called and reaches its select.
ReadFrom ==
    /\ rx.pc = "idle"
    /\ rx' = [pc |-> "select", ret |-> NoResult]
    /\ UNCHANGED <<sideVars, profileVars, dialVars, streamVars, spc, pipe, txLog, dasync, inbox,
                   arrived, wlPc, realSent, dcl, dCloseCalls>>

\* Mutant of ReadFromSelect: the select has no case for closed.
ReadFromSelectNoClosed(buflen) ==
    /\ rx.pc = "select"
    /\ spc.readQueue # <<>>
    /\ spc' = [spc EXCEPT !.readQueue = Tail(@)]
    /\ LET pkt == Head(spc.readQueue)
       IN rx' = [rx EXCEPT !.pc = "idle",
                           !.ret = [id |-> pkt.id,
                                    n |-> Len(copyInto(buflen, pkt.data)),
                                    data |-> copyInto(buflen, pkt.data),
                                    buflen |-> buflen,
                                    addr |-> pkt.addr, err |-> ErrNone]]
    /\ UNCHANGED <<sideVars, profileVars, dialVars, streamVars, pipe, txLog, dasync, inbox,
                   arrived, wlPc, realSent, dcl, dCloseCalls>>

\* ReadFrom, called with a buffer of buflen bytes: its select takes a packet
\* off readQueue or finds closed closed.
ReadFromSelect(buflen) ==
    /\ rx.pc = "select"
    /\ \E how \in {"recv", "closed"} :
         IF how = "recv"
         THEN /\ spc.readQueue # <<>>
              /\ spc' = [spc EXCEPT !.readQueue = Tail(@)]
              /\ LET pkt == Head(spc.readQueue)
                 IN rx' = [rx EXCEPT !.pc = "idle",
                                     !.ret = [id |-> pkt.id,
                                              n |-> Len(copyInto(buflen, pkt.data)),
                                              data |-> copyInto(buflen, pkt.data),
                                              buflen |-> buflen,
                                              addr |-> pkt.addr, err |-> ErrNone]]
         ELSE /\ spc.closed
              /\ spc' = spc
              /\ rx' = [rx EXCEPT !.pc = "idle",
                                  !.ret = [id |-> 0, n |-> 0, data |-> <<>>,
                                           buflen |-> buflen, addr |-> "nil",
                                           err |-> ErrClosed]]
    /\ UNCHANGED <<sideVars, profileVars, dialVars, streamVars, pipe, txLog, dasync, inbox,
                   arrived, wlPc, realSent, dcl, dCloseCalls>>

\* simulatedPacketConn.Close: close(spc.closed), which panics when the channel
\* is closed already; the panic unwinds the caller.
spcClose(c) ==
    /\ c \in lim.closers
    /\ dcl[c] = "idle"
    /\ dCloseCalls < lim.closes
    /\ dCloseCalls' = dCloseCalls + 1
    /\ IF spc.closed
       THEN /\ spc' = [spc EXCEPT !.panics = @ + 1]
            /\ dcl' = [dcl EXCEPT ![c] = "panic"]
       ELSE /\ spc' = [spc EXCEPT !.closed = TRUE, !.signalCloses = @ + 1]
            /\ dcl' = [dcl EXCEPT ![c] = "connClose"]
    /\ UNCHANGED <<sideVars, profileVars, dialVars, streamVars, pipe, txLog, dasync, rx,
                   inbox, arrived, wlPc, realSent>>

\* Close: return spc.conn.Close().
spcCloseConn(c) ==
    /\ dcl[c] = "connClose"
    /\ spc' = [spc EXCEPT !.connClosed = TRUE]
    /\ dcl' = [dcl EXCEPT ![c] = "idle"]
    /\ UNCHANGED <<sideVars, profileVars, dialVars, streamVars, pipe, txLog, dasync, rx,
                   inbox, arrived, wlPc, realSent, dCloseCalls>>

\* ------------------------------------------------------------- the clock
\* Write call k has been made.
WriteCalled(k) == k <= Len(wLog) \/ (w.pc # "idle" /\ w.id = k)

\* A second passes: for each Write call, one more second since it was made,
\* since it returned, and spent in the time.Sleep of simulateLatency.
Tick ==
    /\ now < lim.ticks
    /\ now' = now + 1
    /\ elapsed' = [k \in DOMAIN elapsed |->
                     [asleep |-> elapsed[k].asleep
                                   + (IF w.pc = "enq" /\ w.id = k THEN 1 ELSE 0),
                      called |-> elapsed[k].called + (IF WriteCalled(k) THEN 1 ELSE 0),
                      returned |-> elapsed[k].returned + (IF k <= Len(wLog) THEN 1 ELSE 0)]]
    /\ UNCHANGED <<profileVars, dialVars, streamVars, dgramVars, seedVars, readVars,
                   listenVars, randVars>>

\* Write: time.Sleep(delay) has returned, then sc.enqueueWrite(dataCopy) and
\* return len(b), nil.
SleptWriteEnqueue ==
    /\ w.pc = "enq"
    /\ elapsed[w.id].asleep >= w.delay
    /\ WriteEnqueue

\* ------------------------------------------------- stream shim: Read
\* The bytes the k-th read of the real connection returns when it returns n
\* of them: no two reads return the same byte, and none returns 0, which is
\* what the caller's buffer holds before the call.
Unit(k, n) == [j \in 1..n |-> 10 * k + j]

\* make([]byte, blen)
zeros(blen) == [j \in 1..blen |-> 0]

\* copy(dst, src): the bytes of src that fit replace the head of dst.
copyOver(dst, src) ==
    [j \in 1..Len(dst) |-> IF j <= Len(src) THEN src[j] ELSE dst[j]]

\* What Read has returned before any call.
NoRead == [n |-> 0, err |-> "none", b |-> <<>>]

\* Mutant of Read: the real connection is read before the loss decision, so
\* that a lost read has consumed a unit.
ReadCallReadsFirst(blen) ==
    /\ Running
    /\ rd.pc = "idle"
    /\ Len(realReads) < lim.reads
    /\ \E u \in Drawn(cfg.LossRate) :
         /\ rand' = Consumed(rand, cfg.LossRate)
         /\ IF simulateLoss(u)
            THEN /\ rd' = [rd EXCEPT !.ret = [n |-> 0, err |-> ErrEOF, b |-> zeros(blen)]]
                 /\ realReads' = Append(realReads, blen)
            ELSE /\ rd' = [pc |-> "connRead", b |-> zeros(blen), buffer |-> zeros(blen),
                           n |-> 0, ret |-> NoRead]
                 /\ realReads' = realReads
    /\ UNCHANGED <<lim, cfg, PartitionedAddrs, mu, dialVars, streamVars, dgramVars,
                   seedVars, readBuf, timeVars, listenVars, randVars>>

\* simulatedConn.Read, called with a buffer of blen bytes, up to its loss
\* decision: a lost read returns 0, io.EOF.
ReadCall(blen) ==
    /\ Running
    /\ rd.pc = "idle"
    /\ Len(realReads) < lim.reads
    /\ \E u \in Drawn(cfg.LossRate) :
         /\ rand' = Consumed(rand, cfg.LossRate)
         /\ rd' = IF simulateLoss(u)
                  THEN [rd EXCEPT !.ret = [n |-> 0, err |-> ErrEOF, b |-> zeros(blen)]]
                  ELSE [pc |-> "connRead", b |-> zeros(blen), buffer |-> zeros(blen),
                        n |-> 0, ret |-> NoRead]
    /\ UNCHANGED <<lim, cfg, PartitionedAddrs, mu, dialVars, streamVars, dgramVars,
                   seedVars, readBuf, realReads, timeVars, listenVars, randVars>>

\* Read: n, err := sc.conn.Read(buffer).  The real connection returns n
\* bytes, at least one and no more than the buffer holds, or nothing and the
\* error of a closed connection.
ReadConn(n) ==
    /\ Running
    /\ rd.pc = "connRead"
    /\ n <= Len(rd.b)
    /\ IF n = 0
       THEN /\ rd' = [rd EXCEPT !.pc = "idle", !.ret = [n |-> 0, err |-> ErrEOF, b |-> rd.b]]
            /\ realReads' = realReads
       ELSE /\ rd' = [rd EXCEPT !.pc = "dup", !.n = n,
                                !.buffer = copyOver(@, Unit(Len(realReads) + 1, n))]
            /\ realReads' = Append(realReads, n)
    /\ UNCHANGED <<profileVars, dialVars, streamVars, dgramVars, seedVars, readBuf,
                   timeVars, listenVars, randVars>>

\* Read, holding sc.mu: the duplication decision; a duplicated read is
\* appended to sc.readBuf.
ReadDup ==
    /\ Running
    /\ rd.pc = "dup"
    /\ \E u \in Drawn(cfg.DuplicateRate) :
         /\ rand' = Consumed(rand, cfg.DuplicateRate)
         /\ readBuf' = IF simulateDuplication(u)
                       THEN readBuf \o SubSeq(rd.buffer, 1, rd.n)
                       ELSE readBuf
    /\ rd' = [rd EXCEPT !.pc = "reorder"]
    /\ UNCHANGED <<lim, cfg, PartitionedAddrs, mu, dialVars, streamVars, dgramVars,
                   seedVars, realReads, timeVars, listenVars, randVars>>

\* Read, holding sc.mu: sc.simulateReordering() && len(sc.readBuf) > 0.  The
\* swap copies sc.readBuf into b and keeps buffer[:n] in its place.
ReadReorder ==
    /\ Running
    /\ rd.pc = "reorder"
    /\ \E u \in Drawn(cfg.ReorderRate) :
         /\ rand' = Consumed(rand, cfg.ReorderRate)
         /\ IF simulateReordering(u) /\ Len(readBuf) > 0
            THEN /\ rd' = [rd EXCEPT !.pc = "swapLatency", !.b = copyOver(@, readBuf)]
                 /\ readBuf' = SubSeq(rd.buffer, 1, rd.n)
            ELSE /\ rd' = [rd EXCEPT !.pc = "latency"]
                 /\ readBuf' = readBuf
    /\ UNCHANGED <<lim, cfg, PartitionedAddrs, mu, dialVars, streamVars, dgramVars,
                   seedVars, realReads, timeVars, listenVars, randVars>>

\* Read: sc.simulateLatency(n) and the return, len(b) after a swap, else n
\* with buffer[:n] copied into b.
ReadLatency ==
    /\ Running
    /\ rd.pc \in {"swapLatency", "latency"}
    /\ \E u \in Drawn(cfg.Jitter) : rand' = Consumed(rand, cfg.Jitter)
    /\ rd' = IF rd.pc = "swapLatency"
             THEN [rd EXCEPT !.pc = "idle",
                             !.ret = [n |-> Len(rd.b), err |-> ErrNone, b |-> rd.b]]
             ELSE [rd EXCEPT !.pc = "idle",
                             !.ret = [n |-> rd.n, err |-> ErrNone,
                                      b |-> copyOver(rd.b, SubSeq(rd.buffer, 1, rd.n))]]
    /\ UNCHANGED <<lim, cfg, PartitionedAddrs, mu, dialVars, streamVars, dgramVars,
                   seedVars, readBuf, realReads, timeVars, listenVars, randVars>>

\* ------------------------------------------------- two independent runs
\* The draws a shim operation makes: one of its three decisions.
Kinds == {"loss", "duplicate", "reorder"}

Scripts == [1..MaxOps -> Kinds]

Runs == {1, 2}

\* The outputs generator r can give at its present position.
FloatsAt(r) == {u \in DrawValues : Float64At(r.seed, r.pos, u)}

\* rate > 0 && rand.Float64() < rate, on generator r.
DrawnFrom(r, rate) == IF rate > 0 THEN FloatsAt(r) ELSE {0}

RateOf(kind) ==
    CASE kind = "loss" -> cfg.LossRate
      [] kind = "duplicate" -> cfg.DuplicateRate
      [] kind = "reorder" -> cfg.ReorderRate

Decide(kind, u) ==
    CASE kind = "loss" -> simulateLoss(u)
      [] kind = "duplicate" -> simulateDuplication(u)
      [] kind = "reorder" -> simulateReordering(u)

\* A process of its own has built its Config from the same options and made
\* no draw yet.
SeedIdle ==
    /\ script = <<>>
    /\ runs = [r \in Runs |-> [rand |-> NoRand, decisions |-> <<>>]]

\* Run r performs the next operation of the script: cfg.randSource() on its
\* own Config, then the decision.
RunOp(r) ==
    /\ Len(runs[r].decisions) < Len(script)
    /\ LET kind == script[Len(runs[r].decisions) + 1]
           g == randSource(runs[r].rand)
       IN \E u \in DrawnFrom(g, RateOf(kind)) :
            runs' = [runs EXCEPT ![r] = [rand |-> Consumed(g, RateOf(kind)),
                                         decisions |-> Append(@.decisions, Decide(kind, u))]]
    /\ UNCHANGED <<profileVars, dialVars, streamVars, dgramVars, script, readVars,
                   timeVars, listenVars, randVars>>

\* The operations of the script whose rate is set: the script as it would be
\* if the disabled effects did not exist.
EnabledOps == SelectSeq(script, LAMBDA kind : RateOf(kind) > 0)

\* Run r performs the next operation of the script without its disabled
\* effects.
RunEnabledOp(r) ==
    /\ Len(runs[r].decisions) < Len(EnabledOps)
    /\ LET kind == EnabledOps[Len(runs[r].decisions) + 1]
           g == randSource(runs[r].rand)
       IN \E u \in FloatsAt(g) :
            runs' = [runs EXCEPT ![r] = [rand |-> Advance(g),
                                         decisions |-> Append(@.decisions, Decide(kind, u))]]
    /\ UNCHANGED <<profileVars, dialVars, streamVars, dgramVars, script, readVars,
                   timeVars, listenVars, randVars>>

\* ----------------------------------------------------------- specifications
\* No Dial has been made.
DialIdle ==
    /\ mutations = 0
    /\ dPc = "idle"
    /\ dAddr = "a1"
    /\ dialLog = <<>>
    /\ realDials = <<>>
    /\ shims = 0

\* A stream shim as wrapConn returns it.
StreamIdle ==
    /\ sc = [closed |-> FALSE, queueClosed |-> FALSE, writeQueue |-> <<>>,
             once |-> "new", signalCloses |-> 0, queueCloses |-> 0,
             connClosed |-> FALSE, connCloses |-> 0, crashed |-> FALSE]
    /\ w = [pc |-> "idle", id |-> 0, data |-> <<>>, delay |-> 0]
    /\ wLog = <<>>
    /\ async = [k \in 1..MaxWrites |-> [pc |-> "none", data |-> <<>>, delay |-> 0]]
    /\ drPc = "run"
    /\ realWritten = <<>>
    /\ cl = [c \in Closers |-> "idle"]
    /\ closeCalls = 0

\* A datagram shim as UDPConn returns it, its two loops started.
DgramIdle ==
    /\ spc = [closed |-> FALSE, signalCloses |-> 0, panics |-> 0, readQueue |-> <<>>,
              writeQueue |-> <<>>, connClosed |-> FALSE]
    /\ pipe = [g \in Pipes |->
                 [pc |-> IF g = "tx" THEN "idle" ELSE "top", arg |-> <<>>,
                  pkt |-> [id |-> 0, data |-> <<>>, addr |-> "a1"]]]
    /\ txLog = <<>>
    /\ dasync = [k \in 0..MaxSends |->
                   [pc |-> "none", pkt |-> [id |-> 0, data |-> <<>>, addr |-> "a1"]]]
    /\ rx = [pc |-> "idle", ret |-> NoResult]
    /\ inbox = <<>>
    /\ arrived = {}
    /\ wlPc = "run"
    /\ realSent = <<>>
    /\ dcl = [c \in Closers |-> "idle"]
    /\ dCloseCalls = 0

\* No Read has been made on the stream shim.
ReadIdle ==
    /\ rd = [pc |-> "idle", b |-> <<>>, buffer |-> <<>>, n |-> 0, ret |-> NoRead]
    /\ readBuf = <<>>
    /\ realReads = <<>>

\* No time has passed.
TimeIdle ==
    /\ now = 0
    /\ elapsed = [k \in 1..MaxWrites |-> [asleep |-> 0, called |-> 0, returned |-> 0]]

\* No Accept has been made.
ListenIdle ==
    /\ aPc = [pc |-> "idle", peer |-> "a1", cut |-> FALSE]
    /\ acceptLog = <<>>

\* The goroutines that will call cfg.randSource(): Dial and Accept through
\* wrapConn, and UDPConn.
RandCallers == {"dial", "accept", "udp"}

RandIdle ==
    /\ rs = [c \in RandCallers |-> [pc |-> "idle", nil |-> FALSE, calls |-> 0, got |-> 0]]
    /\ created = 0

SideIdle ==
    /\ SeedIdle
    /\ ReadIdle
    /\ TimeIdle
    /\ ListenIdle
    /\ RandIdle

\* ---------------------------------------------------- Config.randSource
\* Mutant of cfg.mu.Lock() in randSource: the caller does not wait for the lock.
RandLockNoWait(c) ==
    /\ rs[c].pc = "idle"
    /\ rs[c].calls < lim.rands
    /\ mu' = c
    /\ rs' = [rs EXCEPT ![c].pc = "check"]
    /\ UNCHANGED <<lim, cfg, PartitionedAddrs, rand, dialVars, streamVars, dgramVars,
                   seedVars, readVars, timeVars, listenVars, created>>

\* cfg.mu.Lock()
RandLock(c) ==
    /\ rs[c].pc = "idle"
    /\ rs[c].calls < lim.rands
    /\ mu = "free"
    /\ mu' = c
    /\ rs' = [rs EXCEPT ![c].pc = "check"]
    /\ UNCHANGED <<lim, cfg, PartitionedAddrs, rand, dialVars, streamVars, dgramVars,
                   seedVars, readVars, timeVars, listenVars, created>>

\* if cfg.rand == nil
RandCheck(c) ==
    /\ rs[c].pc = "check"
    /\ rs' = [rs EXCEPT ![c].pc = "make", ![c].nil = ~rand.set]
    /\ UNCHANGED <<profileVars, dialVars, streamVars, dgramVars, seedVars, readVars,
                   timeVars, listenVars, created>>

\* cfg.rand = rand.New(...), when the test found nil
RandMake(c) ==
    /\ rs[c].pc = "make"
    /\ IF rs[c].nil
       THEN /\ rand' = randSource(NoRand)
            /\ created' = created + 1
       ELSE /\ UNCHANGED <<rand, created>>
    /\ rs' = [rs EXCEPT ![c].pc = "return"]
    /\ UNCHANGED <<lim, cfg, PartitionedAddrs, mu, dialVars, streamVars, dgramVars,
                   seedVars, readVars, timeVars, listenVars>>

\* return cfg.rand, and the deferred cfg.mu.Unlock(); a generator is known
\* by the number of its creation.
RandReturn(c) ==
    /\ rs[c].pc = "return"
    /\ rs' = [rs EXCEPT ![c].pc = "idle", ![c].calls = @ + 1, ![c].got = created]
    /\ mu' = "free"
    /\ UNCHANGED <<lim, cfg, PartitionedAddrs, rand, dialVars, streamVars, dgramVars,
                   seedVars, readVars, timeVars, listenVars, created>>

NoCalls ==
    [dials |-> 0, mutations |-> 0, writes |-> 0, sends |-> 0, closes |-> 0,
     closers |-> {}, ops |-> 0, reads |-> 0, ticks |-> 0, accepts |-> 0, rands |-> 0]

DialInit ==
    /\ lim = [NoCalls EXCEPT !.dials = MaxDials, !.mutations = MaxMutations]
    /\ cfg \in DialProfiles
    /\ PartitionedAddrs \in PartitionMaps
    /\ mu = "free"
    /\ rand = NoRand
    /\ DialIdle
    /\ StreamIdle
    /\ DgramIdle
    /\ SideIdle

StreamInit ==
    /\ lim = [NoCalls EXCEPT !.writes = MaxWrites, !.closes = 1, !.closers = {"c1"}]
    /\ cfg \in StreamProfiles
    /\ PartitionedAddrs = <<>>
    /\ mu = "free"
    /\ rand = randSource(NoRand)
    /\ DialIdle
    /\ StreamIdle
    /\ DgramIdle
    /\ SideIdle

StreamNext ==
    \/ \E b \in Payloads : WriteCall(b)
    \/ WriteDup
    \/ WriteDupEnqueue
    \/ WriteReorder
    \/ WriteLatency
    \/ WriteEnqueue
    \/ \E k \in 1..MaxWrites : AsyncLatency(k)
    \/ \E k \in 1..MaxWrites : AsyncEnqueue(k)
    \/ processWriteQueue
    \/ \E c \in Closers : CloseCall(c)
    \/ \E c \in Closers : CloseQueue(c)
    \/ \E c \in Closers : CloseConn(c)

SpecStream == StreamInit /\ [][StreamNext]_vars

FairStreamInit ==
    /\ lim = [NoCalls EXCEPT !.writes = MaxWrites, !.closes = 1, !.closers = {"c1"}]
    /\ cfg \in FairStreamProfiles
    /\ PartitionedAddrs = <<>>
    /\ mu = "free"
    /\ rand = randSource(NoRand)
    /\ DialIdle
    /\ StreamIdle
    /\ DgramIdle
    /\ SideIdle

\* The steps of a Write that has been called, of the reorder goroutines and
\* of the drain goroutine: the Go scheduler runs a goroutine that can run.
WriterStep == WriteDup \/ WriteDupEnqueue \/ WriteReorder \/ WriteLatency \/ WriteEnqueue

AsyncStep == \E k \in 1..MaxWrites : AsyncLatency(k) \/ AsyncEnqueue(k)

FairStream ==
    /\ FairStreamInit
    /\ [][StreamNext]_vars
    /\ WF_vars(WriterStep)
    /\ WF_vars(AsyncStep)
    /\ WF_vars(processWriteQueue)

DgramInit ==
    /\ lim = [NoCalls EXCEPT !.sends = MaxSends, !.closes = MaxCloses, !.closers = {"c1"}]
    /\ cfg \in DgramProfiles
    /\ PartitionedAddrs \in DgramPartitionMaps
    /\ mu = "free"
    /\ rand = randSource(NoRand)
    /\ DialIdle
    /\ StreamIdle
    /\ DgramIdle
    /\ SideIdle

DgramNext ==
    \/ \E p \in Payloads, a \in Addrs : WriteTo(p, a)
    \/ \E g \in Pipes : enqueuePacket(g)
    \/ \E g \in Pipes : enqueueDup(g)
    \/ \E g \in Pipes : enqueueDupLatency(g)
    \/ \E g \in Pipes : enqueueDupDeliver(g)
    \/ \E g \in Pipes : enqueueReorder(g)
    \/ \E g \in Pipes : enqueueLatency(g)
    \/ \E g \in Pipes : enqueueDeliver(g)
    \/ \E k \in 0..MaxSends : dasyncSleep(k)
    \/ \E k \in 0..MaxSends : dasyncLatency(k)
    \/ \E k \in 0..MaxSends : dasyncDeliver(k)
    \/ \E pkt \in NetPackets : NetArrive(pkt)
    \/ readLoop
    \/ readLoopRead
    \/ writeLoop
    \/ ReadFrom
    \/ \E n \in BufLens : ReadFromSelect(n)
    \/ \E c \in Closers : spcClose(c)
    \/ \E c \in Closers : spcCloseConn(c)

SpecDgram == DgramInit /\ [][DgramNext]_vars

\* Several goroutines close a stream shim that one Write is made on.
StreamCloseInit ==
    /\ lim = [NoCalls EXCEPT !.writes = 1, !.closes = MaxCloses + 1, !.closers = Closers]
    /\ cfg \in StreamProfiles
    /\ PartitionedAddrs = <<>>
    /\ mu = "free"
    /\ rand = randSource(NoRand)
    /\ DialIdle
    /\ StreamIdle
    /\ DgramIdle
    /\ SideIdle

SpecStreamClose == StreamCloseInit /\ [][StreamNext]_vars

FairDgramInit ==
    /\ lim = [NoCalls EXCEPT !.sends = MaxSends, !.closes = MaxCloses, !.closers = {"c1"}]
    /\ cfg \in FairDgramProfiles
    /\ PartitionedAddrs \in DgramPartitionMaps
    /\ mu = "free"
    /\ rand = randSource(NoRand)
    /\ DialIdle
    /\ StreamIdle
    /\ DgramIdle
    /\ SideIdle

\* The steps of the goroutines inside enqueuePacket, of the reorder
\* goroutines and of a ReadFrom at its select, which the Go scheduler runs
\* when they can run; and the calls of ReadFrom, which the reader goes on
\* making.
PipeStep ==
    \E g \in Pipes :
      \/ enqueuePacket(g) \/ enqueueDup(g) \/ enqueueDupLatency(g)
      \/ enqueueDupDeliver(g) \/ enqueueReorder(g) \/ enqueueLatency(g)
      \/ enqueueDeliver(g)

DasyncStep == \E k \in 0..MaxSends : dasyncSleep(k) \/ dasyncLatency(k) \/ dasyncDeliver(k)

ReaderStep == ReadFrom \/ \E n \in BufLens : ReadFromSelect(n)

FairDgram ==
    /\ FairDgramInit
    /\ [][DgramNext]_vars
    /\ WF_vars(PipeStep)
    /\ WF_vars(DasyncStep)
    /\ WF_vars(ReaderStep)

DialNext ==
    \/ \E a \in Addrs : AddPartition(a)
    \/ \E a \in Addrs : RemovePartition(a)
    \/ \E a \in Addrs : DialCheck(a)
    \/ \E ok \in BOOLEAN : DialConnect(ok)
    \/ DialWrap

SpecDial == DialInit /\ [][DialNext]_vars

\* ----------------------------------------------------------------- claims
\* The payloads of the Write calls that have returned, as they were enqueued.
ReturnedPayloads == [i \in 1..Len(wLog) |-> [id |-> i, data |-> wLog[i].data]]

\* Call k has been made.
Called(k) == Len(wLog) >= k \/ (w.pc # "idle" /\ w.id = k)

\* The number of times call k's payload was handed to the real conn.Write.
TimesWritten(k, data) ==
    Cardinality({i \in DOMAIN realWritten : realWritten[i] = [id |-> k, data |-> data]})

Transparent ==
    /\ cfg.LossRate = 0 /\ cfg.DuplicateRate = 0 /\ cfg.ReorderRate = 0
    /\ cfg.Latency = 0 /\ cfg.Jitter = 0 /\ cfg.Bandwidth = 0

\* C2: with every rate 0 and no latency, jitter or bandwidth, on a shim that
\* is not closed the payloads written to the real connection followed by the
\* queued ones are exactly the payloads of the returned Write calls, each
\* once, unchanged and in call order; and every payload written is in the
\* end handed to the real connection.
C2_TransparentWrites ==
    /\ [](Transparent /\ ~sc.closed => realWritten \o sc.writeQueue = ReturnedPayloads)
    /\ \A k \in 1..MaxWrites :
         [](Transparent /\ Called(k)
              => <>(sc.closed
                     \/ /\ Len(wLog) >= k
                        /\ Len(realWritten) >= k
                        /\ realWritten[k] = [id |-> k, data |-> wLog[k].data]
                        /\ TimesWritten(k, wLog[k].data) = 1))

\* Two different payloads were written and both reached the real connection.
C2_Witness ==
    /\ Transparent
    /\ ~sc.closed
    /\ Len(realWritten) = 2
    /\ realWritten[1].data # realWritten[2].data
    /\ Len(wLog) = 2

\* C3: with loss rate 1 every Write returns len(b) and no error at once, and
\* no payload is queued, left to a reorder goroutine or written to the real
\* connection.
C3_LossOneDropsAll ==
    cfg.LossRate = 100
      => /\ \A i \in DOMAIN wLog :
              wLog[i].n = Len(wLog[i].data) /\ wLog[i].err = ErrNone
         /\ w.pc = "idle"
         /\ sc.writeQueue = <<>>
         /\ realWritten = <<>>
         /\ \A k \in DOMAIN async : async[k].pc = "none"

\* Two Writes returned under loss rate 1, one of them after Close.
C3_Witness ==
    /\ cfg.LossRate = 100
    /\ Len(wLog) = 2
    /\ sc.queueClosed
    /\ wLog[2].n = Len(wLog[2].data)

\* C4: with duplicate rate 1 and reorder and loss rates 0, every payload
\* passed to Write is in the end handed to the real connection at least
\* twice, unless the shim is closed.
C4_DuplicateOneWritesTwice ==
    \A k \in 1..MaxWrites :
      [](cfg.DuplicateRate = 100 /\ cfg.ReorderRate = 0 /\ cfg.LossRate = 0 /\ Called(k)
           => <>(sc.closed
                  \/ (Len(wLog) >= k /\ TimesWritten(k, wLog[k].data) >= 2)))

\* A payload was written twice to the real connection of an open shim.
C4_Witness ==
    /\ cfg.DuplicateRate = 100 /\ cfg.ReorderRate = 0 /\ cfg.LossRate = 0
    /\ ~sc.closed
    /\ Len(wLog) >= 1
    /\ TimesWritten(1, wLog[1].data) = 2

\* The packet WriteTo call k was given, once the call has passed its
\* partition check.
SentPacket(k) ==
    IF Len(txLog) >= k THEN [data |-> txLog[k].data, addr |-> txLog[k].addr]
    ELSE [data |-> pipe["tx"].arg, addr |-> pipe["tx"].pkt.addr]

\* WriteTo call k returned success and its packet was not dropped.
Accepted(k) == Len(txLog) >= k /\ txLog[k].err = ErrNone /\ ~txLog[k].lost

\* C5: a packet WriteTo accepted is on the send queue or has been handed to
\* the real socket's WriteTo with its payload and destination, once no
\* reorder goroutine still holds it, on an open shim.
C5_AcceptedPacketsTransmitted ==
    \A k \in DOMAIN txLog :
      (Accepted(k) /\ ~spc.closed /\ dasync[k].pc \in {"none", "done"})
        => LET pkt == [id |-> k, data |-> txLog[k].data, addr |-> txLog[k].addr]
           IN \/ \E j \in DOMAIN spc.writeQueue : spc.writeQueue[j] = pkt
              \/ \E j \in DOMAIN realSent : realSent[j] = pkt

\* ReadFrom has just returned the packet of WriteTo call k.
Got(k) == rx.pc = "idle" /\ rx.ret.err = ErrNone /\ rx.ret.id = k

\* The packet of WriteTo call k is on the delivery queue or held by the
\* reorder goroutine of the call.
InFlight(k) ==
    \/ \E j \in DOMAIN spc.readQueue : spc.readQueue[j].id = k
    \/ dasync[k].pc \notin {"none", "done"}

\* C6: a ReadFrom that returns the packet of a WriteTo(p, addr) returns no
\* error, addr, and the bytes of p that fit its buffer, all len(p) of them
\* when the buffer has room; when WriteTo returns success for a packet the
\* loss draw did not drop, the packet is queued for delivery or about to be,
\* unless the shim is closed; and a packet queued or about to be is returned
\* by a ReadFrom, unless the shim is closed.
C6_WriteToLoopsBack ==
    /\ [](\A k \in 1..MaxSends :
            Got(k) => /\ rx.ret.addr = SentPacket(k).addr
                      /\ rx.ret.data = copyInto(rx.ret.buflen, SentPacket(k).data)
                      /\ rx.ret.n = Len(rx.ret.data)
                      /\ rx.ret.buflen >= Len(SentPacket(k).data)
                           => /\ rx.ret.n = Len(SentPacket(k).data)
                              /\ rx.ret.data = SentPacket(k).data)
    /\ [][\A k \in 1..MaxSends :
            (~Accepted(k) /\ Accepted(k)') => (spc'.closed \/ InFlight(k)')]_vars
    /\ \A k \in 1..MaxSends : [](InFlight(k) => <>(spc.closed \/ Got(k)))

\* A two-byte packet that the duplicate draw doubled came back whole.
C6_Witness ==
    /\ Got(1)
    /\ ~spc.closed
    /\ Accepted(1)
    /\ rx.ret.n = 2
    /\ \E j \in DOMAIN spc.readQueue : spc.readQueue[j].id = 1

\* C7: a WriteTo to an address that is a key of the partition set returns 0
\* and ErrNetworkPartitioned in the step of its check, and that step puts
\* nothing on a queue, starts no goroutine, sends nothing and leaves the
\* generator where it was.
C7_WriteToPartitionedFails ==
    [][\A a \in Addrs :
         (/\ pipe["tx"].pc = "idle"
          /\ a \in DOMAIN PartitionedAddrs
          /\ \/ pipe'["tx"].pc = "enqueue" /\ pipe'["tx"].pkt.addr = a
             \/ Len(txLog') > Len(txLog) /\ txLog'[Len(txLog')].addr = a)
         => /\ Len(txLog') = Len(txLog) + 1
            /\ txLog'[Len(txLog')].n = 0
            /\ txLog'[Len(txLog')].err = ErrNetworkPartitioned
            /\ pipe' = pipe
            /\ spc' = spc
            /\ dasync' = dasync
            /\ realSent' = realSent
            /\ rand' = rand]_vars

\* A WriteTo was refused under a profile whose loss draw is enabled, and the
\* generator has made no draw.
C7_Witness ==
    /\ cfg.LossRate > 0
    /\ rand.pos = 0
    /\ Len(txLog) >= 1
    /\ txLog[1].err = ErrNetworkPartitioned
    /\ txLog[1].n = 0
    /\ spc.readQueue = <<>>

\* C8: however many times Close is called on a datagram shim, the closed
\* signal is closed once and no call panics.
C8_DatagramCloseOnce == spc.signalCloses <= 1 /\ spc.panics = 0

\* C9: the closed signal and the transmit queue of a stream shim are closed
\* at most once, and a Close call made after a Close has completed changes
\* neither the shim nor the state of the real connection.
C9_StreamCloseIdempotent ==
    /\ [](sc.signalCloses <= 1 /\ sc.queueCloses <= 1)
    /\ [][\A c \in Closers :
            (sc.once = "done" /\ sc.connClosed /\ cl'[c] # cl[c])
              => /\ sc'.closed = sc.closed
                 /\ sc'.queueClosed = sc.queueClosed
                 /\ sc'.writeQueue = sc.writeQueue
                 /\ sc'.once = sc.once
                 /\ sc'.signalCloses = sc.signalCloses
                 /\ sc'.queueCloses = sc.queueCloses
                 /\ sc'.connClosed = sc.connClosed]_vars

\* Three Close calls have returned, by two goroutines.
C9_Witness ==
    /\ sc.connCloses = 3
    /\ \A c \in Closers : cl[c] = "idle"
    /\ sc.signalCloses = 1
    /\ sc.queueCloses = 1

\* C10: a ReadFrom returns a packet only by taking it off the delivery queue
\* and returns net.ErrClosed only once the shim is closed, so it blocks while
\* the queue is empty and the shim open; and a ReadFrom at its select on a
\* closed shim returns, with net.ErrClosed when the queue is empty.
C10_ReadFromBlocksUntilClosed ==
    /\ [][(rx.pc = "select" /\ rx'.pc = "idle")
            => \/ /\ rx'.ret.err = ErrNone
                  /\ spc.readQueue # <<>>
                  /\ rx'.ret.id = Head(spc.readQueue).id
                  /\ spc'.readQueue = Tail(spc.readQueue)
               \/ /\ rx'.ret.err = ErrClosed
                  /\ rx'.ret.n = 0
                  /\ spc.closed
                  /\ spc'.readQueue = spc.readQueue]_vars
    /\ [][(rx.pc = "select" /\ rx'.pc = "idle" /\ spc.readQueue = <<>>)
            => rx'.ret.err = ErrClosed]_vars
    /\ [](rx.pc = "select" /\ spc.closed => <>(rx.pc = "idle"))

\* A ReadFrom returned net.ErrClosed on a closed shim with an empty queue.
C10_Witness ==
    /\ spc.closed
    /\ rx.pc = "idle"
    /\ rx.ret.err = ErrClosed
    /\ spc.readQueue = <<>>
    /\ Len(txLog) >= 1

\* C1: a Dial to an address that is a key of the partition set ends at once
\* with ErrNetworkPartitioned and no connection, makes no real connect
\* attempt and creates no shim.
C1_DialPartitionedFails ==
    [][\A a \in Addrs :
         (dPc = "idle" /\ a \in DOMAIN PartitionedAddrs /\ dAddr' = a
            /\ <<dPc, dialLog>>' # <<dPc, dialLog>>)
         => /\ dPc' = "idle"
            /\ dialLog' = Append(dialLog, [addr |-> a, err |-> ErrNetworkPartitioned,
                                            conn |-> FALSE])
            /\ realDials' = realDials
            /\ shims' = shims]_vars

\* A Dial was refused as partitioned, and no connection was made or wrapped.
C1_Witness ==
    /\ \E i \in DOMAIN dialLog : dialLog[i].err = ErrNetworkPartitioned
    /\ realDials = <<>>
    /\ shims = 0

\* ------------------------------------------------------- seeded generators
\* Profiles of the two-run comparison: a seed, fixed or taken from the clock,
\* and the three rates.
SeedProfiles ==
    [Latency : {0}, Jitter : {0}, Bandwidth : {0}, LossRate : {0, 50},
     ReorderRate : {0, 50}, DuplicateRate : {0, 50}, Seed : {0, 1, 2}]

SeedInit ==
    /\ lim = [NoCalls EXCEPT !.ops = MaxOps]
    /\ cfg \in SeedProfiles
    /\ PartitionedAddrs = <<>>
    /\ mu = "free"
    /\ rand = NoRand
    /\ DialIdle
    /\ StreamIdle
    /\ DgramIdle
    /\ script \in Scripts
    /\ runs = [r \in Runs |-> [rand |-> NoRand, decisions |-> <<>>]]
    /\ ReadIdle
    /\ TimeIdle
    /\ ListenIdle
    /\ RandIdle

SeedNext == \E r \in Runs : RunOp(r)

SpecSeed == SeedInit /\ [][SeedNext]_vars

\* C11: with a fixed non-zero seed, two runs that perform the same operations
\* in the same order have made the same decisions so far.
C11_SeededRunsAgree ==
    cfg.Seed # 0
      => \A i \in 1..MaxOps :
           (i <= Len(runs[1].decisions) /\ i <= Len(runs[2].decisions))
             => runs[1].decisions[i] = runs[2].decisions[i]

\* Two seeded runs have finished a script on which the generator decided
\* both ways.
C11_Witness ==
    /\ cfg.Seed # 0
    /\ Len(runs[1].decisions) = MaxOps
    /\ Len(runs[2].decisions) = MaxOps
    /\ \E i, j \in 1..MaxOps : runs[1].decisions[i] /\ ~runs[2].decisions[j]

\* ----------------------------------------------- partitions while in use
\* A dialer and a datagram shim share a profile with no effects whose
\* partition set is changed between their calls.
PartitionInit ==
    /\ lim = [NoCalls EXCEPT !.dials = MaxDials, !.mutations = MaxMutations,
                             !.sends = MaxSends]
    /\ cfg \in {p \in DialProfiles : p.Seed = 0}
    /\ PartitionedAddrs \in PartitionMaps
    /\ mu = "free"
    /\ rand = randSource(NoRand)
    /\ DialIdle
    /\ StreamIdle
    /\ DgramIdle
    /\ SideIdle

PartitionNext ==
    \/ \E a \in Addrs : AddPartition(a)
    \/ \E a \in Addrs : RemovePartition(a)
    \/ \E a \in Addrs : DialCheck(a)
    \/ \E ok \in BOOLEAN : DialConnect(ok)
    \/ DialWrap
    \/ \E p \in Payloads, a \in Addrs : WriteTo(p, a)
    \/ \E g \in Pipes : enqueuePacket(g)
    \/ \E g \in Pipes : enqueueDeliver(g)

SpecPartition == PartitionInit /\ [][PartitionNext]_vars

\* The call that has just returned was refused as partitioned.
Refused(log) == log[Len(log)].err = ErrNetworkPartitioned

\* C12: AddPartition(a) leaves a in the partition set and RemovePartition(a)
\* leaves it out, neither touches another address, nothing else changes the
\* set, and every Dial and every WriteTo to a is refused exactly when a is in
\* the set as the call finds it; AddPartition of an address it has added and
\* RemovePartition of an absent address change nothing.
C12_PartitionMutationsImmediate ==
    [][\A a \in Addrs :
         /\ AddPartition(a)
              => /\ isPartitioned(PartitionedAddrs', a)
                 /\ \A b \in Addrs \ {a} :
                      isPartitioned(PartitionedAddrs', b) = isPartitioned(PartitionedAddrs, b)
                 /\ (isPartitioned(PartitionedAddrs, a) /\ PartitionedAddrs[a])
                      => PartitionedAddrs' = PartitionedAddrs
         /\ RemovePartition(a)
              => /\ ~isPartitioned(PartitionedAddrs', a)
                 /\ \A b \in Addrs \ {a} :
                      isPartitioned(PartitionedAddrs', b) = isPartitioned(PartitionedAddrs, b)
                 /\ ~isPartitioned(PartitionedAddrs, a)
                      => PartitionedAddrs' = PartitionedAddrs
         /\ isPartitioned(PartitionedAddrs', a) # isPartitioned(PartitionedAddrs, a)
              => AddPartition(a) \/ RemovePartition(a)
         /\ DialCheck(a)
              => (isPartitioned(PartitionedAddrs, a)
                    <=> Len(dialLog') = Len(dialLog) + 1 /\ Refused(dialLog'))
         /\ \A p \in Payloads :
              WriteTo(p, a)
                => (isPartitioned(PartitionedAddrs, a)
                      <=> Len(txLog') = Len(txLog) + 1 /\ Refused(txLog'))]_vars

\* A Dial to a1 connected, then, a1 having been added, a Dial and a WriteTo
\* to a1 were refused.
C12_Witness ==
    /\ Len(dialLog) = 2
    /\ dialLog[1].addr = "a1" /\ dialLog[1].err = ErrNone
    /\ dialLog[2].addr = "a1" /\ dialLog[2].err = ErrNetworkPartitioned
    /\ Len(txLog) = 1
    /\ txLog[1].addr = "a1" /\ txLog[1].err = ErrNetworkPartitioned
    /\ mutations = 1

\* ------------------------------------------------------ reads of a stream
ReadProfiles ==
    {p \in [Latency : {0, 1}, Jitter : {0, 2}, Bandwidth : {0, 1}, LossRate : {0, 50},
            ReorderRate : {0, 50}, DuplicateRate : {0, 50}, Seed : {0}] :
       (p.Latency = 0) = (p.Jitter = 0) /\ (p.Jitter = 0) = (p.Bandwidth = 0)}

ReadInit ==
    /\ lim = [NoCalls EXCEPT !.reads = MaxReads]
    /\ cfg \in ReadProfiles
    /\ PartitionedAddrs = <<>>
    /\ mu = "free"
    /\ rand = randSource(NoRand)
    /\ DialIdle
    /\ StreamIdle
    /\ DgramIdle
    /\ SideIdle

ReadNext ==
    \/ \E blen \in BufLens : ReadCall(blen)
    \/ \E n \in {0} \cup BufLens : ReadConn(n)
    \/ ReadDup
    \/ ReadReorder
    \/ ReadLatency

SpecRead == ReadInit /\ [][ReadNext]_vars

\* The bytes the real connection has returned so far.
RealBytes ==
    UNION {{Unit(k, realReads[k])[j] : j \in 1..realReads[k]} : k \in DOMAIN realReads}

\* C13: when Read returns n and no error, each of the first n bytes of the
\* caller's buffer is a byte the real connection returned.
C13_ReadBytesFromRealConn ==
    (rd.pc = "idle" /\ rd.ret.err = ErrNone)
      => \A i \in 1..rd.ret.n : rd.ret.b[i] \in RealBytes

\* C17: sc.readBuf is empty or holds the bytes of exactly one read of the
\* real connection.
C17_StashHoldsOneRead ==
    \/ readBuf = <<>>
    \/ \E k \in DOMAIN realReads : readBuf = Unit(k, realReads[k])

\* ------------------------------------------------------- writes in time
\* Profiles with a base latency and nothing else.
LatencyProfiles ==
    [Latency : {1, 2}, Jitter : {0}, Bandwidth : {0}, LossRate : {0},
     ReorderRate : {0}, DuplicateRate : {0}, Seed : {0}]

TimedInit ==
    /\ lim = [NoCalls EXCEPT !.writes = MaxWrites, !.ticks = MaxTicks]
    /\ cfg \in LatencyProfiles
    /\ PartitionedAddrs = <<>>
    /\ mu = "free"
    /\ rand = randSource(NoRand)
    /\ DialIdle
    /\ StreamIdle
    /\ DgramIdle
    /\ SideIdle

TimedNext ==
    \/ Tick
    \/ \E b \in Payloads : WriteCall(b)
    \/ WriteDup
    \/ WriteReorder
    \/ WriteLatency
    \/ SleptWriteEnqueue
    \/ processWriteQueue

SpecTimed == TimedInit /\ [][TimedNext]_vars

\* C14, as the specification states it: with a base latency and no other
\* effect, a payload the real connection has been given was given to it no
\* sooner than the latency after its Write returned.
C14_WrittenLatencyAfterReturn ==
    \A j \in DOMAIN realWritten :
      elapsed[realWritten[j].id].returned >= cfg.Latency

\* C14, as the code has it: with a base latency and no other effect, a
\* payload the real connection has been given was given to it no sooner than
\* the latency after its Write was called.
C14_WrittenLatencyAfterCall ==
    \A j \in DOMAIN realWritten :
      elapsed[realWritten[j].id].called >= cfg.Latency

\* A payload was handed to the real connection the latency after its Write
\* was called and within the second its Write returned.
C14_Witness ==
    /\ Len(realWritten) >= 1
    /\ elapsed[realWritten[1].id].called = cfg.Latency
    /\ elapsed[realWritten[1].id].returned = 0
    /\ Len(wLog) >= 1
    /\ wLog[1].slept = cfg.Latency

\* ------------------------------------------------------------ a listener
ListenInit ==
    /\ lim = [NoCalls EXCEPT !.accepts = MaxAccepts, !.mutations = MaxMutations]
    /\ cfg \in DialProfiles
    /\ PartitionedAddrs \in PartitionMaps
    /\ mu = "free"
    /\ rand = NoRand
    /\ DialIdle
    /\ StreamIdle
    /\ DgramIdle
    /\ SideIdle

ListenNext ==
    \/ \E a \in Addrs : AddPartition(a)
    \/ \E a \in Addrs : RemovePartition(a)
    \/ \E peer \in Addrs, ok \in BOOLEAN : AcceptReal(peer, ok)
    \/ AcceptWrap

SpecListen == ListenInit /\ [][ListenNext]_vars

\* C15: an Accept whose real accept succeeded returned a connection and no
\* error, whatever the partition set held, and one whose real accept failed
\* returned no connection and ErrFailedToAccept; the shims created are those
\* of the successful accepts.
C15_AcceptIgnoresPartitions ==
    /\ \A i \in DOMAIN acceptLog :
         IF acceptLog[i].ok
         THEN acceptLog[i].conn /\ acceptLog[i].err = ErrNone
         ELSE ~acceptLog[i].conn /\ acceptLog[i].err = ErrFailedToAccept
    /\ shims = Cardinality({i \in DOMAIN acceptLog : acceptLog[i].ok})

\* A connection was accepted and wrapped while the peer or the listener was
\* partitioned, and an accept that failed created nothing.
C15_Witness ==
    /\ Len(acceptLog) = 2
    /\ acceptLog[1].ok /\ acceptLog[1].cut /\ acceptLog[1].conn
    /\ ~acceptLog[2].ok /\ acceptLog[2].err = ErrFailedToAccept
    /\ shims = 1

\* ------------------------------------------------------ draws and the lock
\* The step draws from the profile's generator.
DrawMade == rand'.pos # rand.pos

\* The step is one of a goroutine inside enqueuePacket, between its
\* spc.cfg.mu.Lock() and the deferred Unlock.
UnderProfileLock ==
    \E g \in Pipes :
      /\ pipe'[g] # pipe[g]
      /\ mu = g \/ mu' = g \/ pipe[g].pc = "enqueue"

\* C16: every step that draws from the profile's generator is made by a
\* goroutine holding the profile's lock.
C16_DrawsUnderProfileLock == [][DrawMade => UnderProfileLock]_vars

\* ------------------------------------------------- what a Write waits for
\* The copies of the payload of Write call k that have been put on the
\* transmit queue.
Copies(k) ==
    LET q == realWritten \o sc.writeQueue
    IN Cardinality({j \in DOMAIN q : q[j].id = k})

\* C18, as the specification states it: a Write that has duplicated its
\* payload makes no latency wait before it returns.
C18_DuplicatedWriteDoesNotSleep ==
    (w.pc = "enq" /\ Copies(w.id) >= 1) => w.delay = 0

\* C18, as the code has it: a Write that was lost or whose payload went to a
\* reorder goroutine returned without a latency wait, and a Write that made
\* one, duplicated or not, had not reordered and waited at least the base
\* latency.
C18_ReorderedWriteDoesNotSleep ==
    /\ \A i \in DOMAIN wLog :
         /\ (wLog[i].lost \/ async[i].pc # "none") => wLog[i].slept = 0
         /\ wLog[i].slept > 0 => wLog[i].slept >= cfg.Latency
    /\ w.pc \in {"latency", "enq"} => async[w.id].pc = "none"

\* A Write that duplicated its payload slept before it returned, and the
\* next Write, reordered, returned without sleeping.
C18_Witness ==
    /\ Len(wLog) = 2
    /\ wLog[1].slept > 0
    /\ Copies(1) = 2
    /\ async[2].pc # "none"
    /\ wLog[2].slept = 0
    /\ cfg.Latency > 0

\* ------------------------------------------------------- order of the drain
\* The payloads enqueued so far, in the order of their enqueue, as long as
\* they are written in that order: those written, then those queued.
Enqueued == realWritten \o sc.writeQueue

\* C19: a step that enqueues puts its payload behind every payload enqueued
\* before it, no step takes a payload out of that order, and a step that
\* writes to the real connection writes the payload that has been on the
\* queue longest and nothing else.
C19_DrainInEnqueueOrder ==
    [][/\ \/ Enqueued' = Enqueued
          \/ \E k \in 1..MaxWrites, p \in Payloads :
               Enqueued' = Append(Enqueued, [id |-> k, data |-> p])
       /\ realWritten' # realWritten
            => /\ sc.writeQueue # <<>>
               /\ realWritten' = Append(realWritten, Head(sc.writeQueue))
               /\ sc'.writeQueue = Tail(sc.writeQueue)]_vars

\* Three payloads, one of them a duplicate, were written in the order they
\* were enqueued while a fourth waits.
C19_Witness ==
    /\ Len(realWritten) = 3
    /\ realWritten[1].id = 1 /\ realWritten[2].id = 1 /\ realWritten[3].id = 2
    /\ Len(sc.writeQueue) = 1
    /\ sc.writeQueue[1].id = 2

\* ------------------------------------------------------ bounded queues
\* Either shim under a fair scheduler: a run exercises the stream shim or the
\* datagram shim, chosen by the calls the initial state allows.
StreamMode == lim.writes > 0

DgramMode == lim.sends > 0

\* The profiles the queues are filled with: duplication and reordering make
\* more producers than a queue has room for, latency makes them sleep first.
QueueProfiles ==
    {p \in [Latency : {0, 1}, Jitter : {0, 2}, Bandwidth : {0}, LossRate : {0},
            ReorderRate : {0, 100}, DuplicateRate : {0, 100}, Seed : {0}] :
       (p.Latency = 0) = (p.Jitter = 0)}

QueuesInit ==
    /\ lim \in {[NoCalls EXCEPT !.writes = MaxWrites, !.closes = 1, !.closers = {"c1"}],
                [NoCalls EXCEPT !.sends = MaxSends, !.closes = 1, !.closers = {"c1"}]}
    /\ cfg \in QueueProfiles
    /\ PartitionedAddrs = <<>>
    /\ mu = "free"
    /\ rand = randSource(NoRand)
    /\ DialIdle
    /\ StreamIdle
    /\ DgramIdle
    /\ SideIdle

QueuesNext ==
    \/ StreamMode /\ \E b \in Payloads : WriteCall(b)
    \/ StreamMode /\ WriteDup
    \/ StreamMode /\ WriteDupEnqueue
    \/ StreamMode /\ WriteReorder
    \/ StreamMode /\ WriteLatency
    \/ StreamMode /\ WriteEnqueue
    \/ StreamMode /\ \E k \in 1..MaxWrites : AsyncLatency(k)
    \/ StreamMode /\ \E k \in 1..MaxWrites : AsyncEnqueue(k)
    \/ StreamMode /\ processWriteQueue
    \/ StreamMode /\ \E c \in Closers : CloseCall(c)
    \/ StreamMode /\ \E c \in Closers : CloseQueue(c)
    \/ StreamMode /\ \E c \in Closers : CloseConn(c)
    \/ DgramMode /\ \E p \in Payloads, a \in Addrs : WriteTo(p, a)
    \/ DgramMode /\ \E g \in Pipes : enqueuePacket(g)
    \/ DgramMode /\ \E g \in Pipes : enqueueDup(g)
    \/ DgramMode /\ \E g \in Pipes : enqueueDupLatency(g)
    \/ DgramMode /\ \E g \in Pipes : enqueueDupDeliver(g)
    \/ DgramMode /\ \E g \in Pipes : enqueueReorder(g)
    \/ DgramMode /\ \E g \in Pipes : enqueueLatency(g)
    \/ DgramMode /\ \E g \in Pipes : enqueueDeliver(g)
    \/ DgramMode /\ \E k \in 0..MaxSends : dasyncSleep(k)
    \/ DgramMode /\ \E k \in 0..MaxSends : dasyncLatency(k)
    \/ DgramMode /\ \E k \in 0..MaxSends : dasyncDeliver(k)
    \/ DgramMode /\ \E pkt \in NetPackets : NetArrive(pkt)
    \/ DgramMode /\ readLoop
    \/ DgramMode /\ readLoopRead
    \/ DgramMode /\ writeLoop
    \/ DgramMode /\ ReadFrom
    \/ DgramMode /\ \E n \in BufLens : ReadFromSelect(n)
    \/ DgramMode /\ \E c \in Closers : spcClose(c)
    \/ DgramMode /\ \E c \in Closers : spcCloseConn(c)

\* The producers run when they can; a reader of the datagram shim and the
\* callers of Close need not come.
FairQueues ==
    /\ QueuesInit
    /\ [][QueuesNext]_vars
    /\ WF_vars(StreamMode /\ WriterStep)
    /\ WF_vars(StreamMode /\ AsyncStep)
    /\ WF_vars(StreamMode /\ processWriteQueue)
    /\ WF_vars(DgramMode /\ PipeStep)
    /\ WF_vars(DgramMode /\ DasyncStep)

\* The producers of the stream write queue at their select on it: the Write
\* call with a duplicate or with its payload, and a reorder goroutine.
WriteAtQueue == w.pc \in {"dupEnq", "enq"}

AsyncAtQueue(k) == async[k].pc = "enq"

\* The producers of the datagram receive queue at their select on it.
PipeAtQueue(g) == pipe[g].pc \in {"dupDeliver", "deliver"}

DasyncAtQueue(k) == dasync[k].pc = "deliver"

WriteQueueFull == Len(sc.writeQueue) = QueueCap

ReadQueueFull == Len(spc.readQueue) = QueueCap

\* C20: no queue ever holds more than its capacity; a producer at a full
\* queue of an open shim does not move, and when it moves the shim has been
\* closed and the queue is as it was; no producer stays at its queue for
\* ever in a closed shim, unless the process has died.
C20_QueuesBoundedProducersBlock ==
    /\ [](/\ Len(sc.writeQueue) <= QueueCap
          /\ Len(spc.readQueue) <= QueueCap
          /\ Len(spc.writeQueue) <= QueueCap)
    /\ [][/\ (WriteAtQueue /\ WriteQueueFull /\ w' # w)
              => sc.closed /\ sc'.writeQueue = sc.writeQueue
          /\ \A k \in 1..MaxWrites :
               (AsyncAtQueue(k) /\ WriteQueueFull /\ async'[k] # async[k])
                 => sc.closed /\ sc'.writeQueue = sc.writeQueue
          /\ \A g \in Pipes :
               (PipeAtQueue(g) /\ ReadQueueFull /\ pipe'[g] # pipe[g])
                 => spc.closed /\ spc'.readQueue = spc.readQueue
          /\ \A k \in 0..MaxSends :
               (DasyncAtQueue(k) /\ ReadQueueFull /\ dasync'[k] # dasync[k])
                 => spc.closed /\ spc'.readQueue = spc.readQueue]_vars
    /\ []<>~(WriteAtQueue /\ sc.closed /\ ~sc.crashed)
    /\ \A k \in 1..MaxWrites : []<>~(AsyncAtQueue(k) /\ sc.closed /\ ~sc.crashed)
    /\ \A g \in Pipes : []<>~(PipeAtQueue(g) /\ spc.closed)
    /\ \A k \in 0..MaxSends : []<>~(DasyncAtQueue(k) /\ spc.closed)

\* The second Write found the queue full of the first one's two copies and
\* stayed at it until Close; it has returned and nothing of it is queued.
C20_Witness ==
    /\ sc.closed
    /\ WriteQueueFull
    /\ realWritten = <<>>
    /\ \A i \in 1..QueueCap : sc.writeQueue[i].id = 1
    /\ Len(wLog) = 2
    /\ ~wLog[2].lost
    /\ w.pc = "idle"

\* ------------------------------------------------------ disabled effects
\* Run 1 performs the whole script, run 2 the script without the effects
\* whose rate is 0, each on its own Config built from the same options.
SkipNext == RunOp(1) \/ RunEnabledOp(2)

SpecSkip == SeedInit /\ [][SkipNext]_vars

\* The place of operation i of the script among the enabled ones.
Rank(i) == Cardinality({j \in 1..i : RateOf(script[j]) > 0})

\* C21: a decision whose rate is 0 is false and leaves the generator where
\* it was, and with a fixed seed the other decisions are those of a run in
\* which the disabled effects do not exist.
C21_DisabledEffectDrawsNothing ==
    /\ \A i \in 1..Len(runs[1].decisions) :
         /\ RateOf(script[i]) = 0 => ~runs[1].decisions[i]
         /\ (cfg.Seed # 0 /\ RateOf(script[i]) > 0 /\ Rank(i) <= Len(runs[2].decisions))
              => runs[1].decisions[i] = runs[2].decisions[Rank(i)]
    /\ runs[1].rand.pos = Rank(Len(runs[1].decisions)) % 3

\* A seeded run has finished a script that has a disabled effect before an
\* enabled one, the run without the disabled effects has finished too, and
\* the generator decided both ways.
C21_Witness ==
    /\ cfg.Seed # 0
    /\ Len(runs[1].decisions) = MaxOps
    /\ Len(runs[2].decisions) = Len(EnabledOps)
    /\ \E i, j \in 1..MaxOps : i < j /\ RateOf(script[i]) = 0 /\ RateOf(script[j]) > 0
    /\ \E i, j \in 1..MaxOps : runs[1].decisions[i] /\ RateOf(script[j]) > 0
                                   /\ ~runs[1].decisions[j]

\* ------------------------------------------------- one generator a Config
\* Three goroutines call cfg.randSource() on one fresh Config, twice each.
RandInit ==
    /\ lim = [NoCalls EXCEPT !.rands = MaxRandCalls]
    /\ cfg \in SeedProfiles
    /\ PartitionedAddrs = <<>>
    /\ mu = "free"
    /\ rand = NoRand
    /\ DialIdle
    /\ StreamIdle
    /\ DgramIdle
    /\ SideIdle

RandNext ==
    \/ \E c \in RandCallers : RandLock(c)
    \/ \E c \in RandCallers : RandCheck(c)
    \/ \E c \in RandCallers : RandMake(c)
    \/ \E c \in RandCallers : RandReturn(c)

SpecRand == RandInit /\ [][RandNext]_vars

\* C22: at most one generator is ever made for a Config, every call that
\* has returned returned that one, and it carries the Config's seed.
C22_GeneratorCreatedOnce ==
    /\ created <= 1
    /\ \A c \in RandCallers : rs[c].calls > 0 => rs[c].got = 1 /\ created = 1
    /\ created = 1 => rand.set /\ rand.seed = cfg.Seed

\* Every caller has returned from a call while one of them, having found
\* the generator made, is about to return from another.
C22_Witness ==
    /\ created = 1
    /\ \A c \in RandCallers : rs[c].calls >= 1 /\ rs[c].got = 1
    /\ \E c \in RandCallers : rs[c].pc = "return" /\ ~rs[c].nil /\ mu = c

\* --------------------------------------------------------------- lost reads
\* C23: a Read lost at its loss decision returns 0 bytes and io.EOF with the
\* caller's buffer untouched, reads nothing from the real connection, leaves
\* sc.readBuf as it was, and has made the loss draw and no other.  The step
\* in which a Read returns at its loss decision is the one that leaves the
\* caller between calls and has made a draw.
C23_LostReadTouchesNothing ==
    [][(rd.pc = "idle" /\ rd'.pc = "idle" /\ rand' # rand)
         => /\ rd'.ret.n = 0
            /\ rd'.ret.err = ErrEOF
            /\ \E blen \in BufLens : rd'.ret.b = zeros(blen)
            /\ realReads' = realReads
            /\ readBuf' = readBuf
            /\ rand' = Advance(rand)]_vars

\* A Read was lost after an earlier one had read a unit and left a stash:
\* the caller's locals of the earlier call show that this call did not
\* reach the real connection.
C23_Witness ==
    /\ cfg.LossRate > 0
    /\ rd.pc = "idle"
    /\ rd.ret.n = 0 /\ rd.ret.err = ErrEOF
    /\ rd.n > 0
    /\ Len(realReads) = 1
    /\ readBuf # <<>>

\* ------------------------------------------------- sends on a closed queue
\* C24: no Write call and no reorder goroutine ever sends on sc.writeQueue
\* after Close has closed it: none of them has panicked in enqueueWrite.
C24_NoSendOnClosedQueue ==
    /\ w.pc # "panic"
    /\ \A k \in 1..MaxWrites : async[k].pc # "panic"

\* -------------------------------------------- the profile lock and the queue
\* C25: cfg.mu is never held by a goroutine that waits at the full receive
\* queue of an open datagram shim.
C25_LockNotHeldAtFullQueue ==
    \A g \in Pipes : ~(mu = g /\ PipeAtQueue(g) /\ ReadQueueFull /\ ~spc.closed)

=============================================================================
